---- MODULE Spec2Model ----
(***************************************************************************)
(* Authentication session lifecycle of PromptForge's backend:              *)
(* app/core/security.py (JWT issue / decode, token hashing),               *)
(* app/services/auth_service.py (credential check),                        *)
(* app/api/dependencies.py (current-user resolution) and                   *)
(* app/api/auth.py (login, logout, refresh, revoke).                       *)
(*                                                                         *)
(* Time is counted in ticks, TicksPerSecond ticks to the second, so that   *)
(* the difference between the whole-second "exp" claim of a JWT and the    *)
(* sub-second expires_at column is visible.                                *)
(***************************************************************************)
EXTENDS Integers, Sequences, FiniteSets, TLC

\* ---------------------------------------------------------------- bounds
TicksPerSecond == 2
Slack == 2
MaxRows == 2
MaxThreads == 2
MaxRetries == 3

\* ------------------------------------------------------ program constants
ACCESS_TOKEN_EXPIRE_MINUTES == 30
REFRESH_TOKEN_EXPIRE_DAYS == 7

HTTP_200_OK == 200
HTTP_201_CREATED == 201
HTTP_400_BAD_REQUEST == 400
HTTP_401_UNAUTHORIZED == 401
HTTP_404_NOT_FOUND == 404
HTTP_500_INTERNAL_SERVER_ERROR == 500

\* timedelta(minutes=ACCESS_TOKEN_EXPIRE_MINUTES), in ticks
access_token_expires == ACCESS_TOKEN_EXPIRE_MINUTES * 60 * TicksPerSecond
\* timedelta(days=REFRESH_TOKEN_EXPIRE_DAYS), in ticks
refresh_token_expires == REFRESH_TOKEN_EXPIRE_DAYS * 24 * 60 * 60 * TicksPerSecond

MaxTime == refresh_token_expires + Slack
\* the instants the clock visits: the start, and the ticks around the end of
\* the life of a refresh token issued at the start
Instants == {0} \cup (refresh_token_expires..MaxTime)

VARIABLES
    now,             \* datetime.utcnow(), in ticks
    refresh_tokens,  \* table refresh_tokens: sequence of rows, index = id
    issued,          \* tokens that clients hold from earlier responses
    last,            \* the last request served and its response
    clock,              \* time.time(), in ticks
    rate_limits,        \* EndpointRateLimiter.rate_limits
    middleware_limits,  \* RateLimitMiddleware.rate_limits
    last_cleanup,       \* EndpointRateLimiter.last_cleanup
    observed,           \* the last rate-limit check and the run it belongs to
    subject,            \* the sender and limit whose bucket a run exercises
    uncleaned,          \* rate_limits of a limiter that never removes a bucket
    threads,            \* requests inside check_rate_limit on worker threads
    inflight,        \* requests inside a handler of app/api/auth.py, by thread
    users,           \* table users, as committed
    call,            \* a function applied to arguments, and what it returned
    prompts,         \* table prompts, as committed
    prompt_versions  \* table prompt_versions, as committed

authvars == <<now, refresh_tokens, issued, last>>
limitvars == <<clock, rate_limits, middleware_limits, last_cleanup, observed, subject, uncleaned,
               threads>>
flightvars == <<inflight, users, call>>
promptvars == <<prompts, prompt_versions>>
vars == <<authvars, limitvars, flightvars, promptvars>>

\* what a step of one part of the program leaves alone
notauth == <<limitvars, flightvars, promptvars>>
notlimit == <<authvars, flightvars, promptvars>>

\* an empty dict
EmptyMap == [key \in {} |-> 0]

\* no rate-limit check made yet
NoCheck ==
    [limiter |-> "-", client_id |-> <<>>, endpoint |-> "-", rate_per_minute |-> 0,
     burst |-> 0, allowed |-> TRUE, retry_after |-> 0, at |-> -1, nth |-> 0,
     denied_at |-> -1, left |-> 0, hint |-> 0, resumed_at |-> -1, granted |-> 0]

NoSubject == [limiter |-> "-"]

\* no function applied yet
NoCall == [fn |-> "-"]

\* both rate limiters as constructed, with no request inside them
LimiterAtRest ==
    /\ clock = 0
    /\ rate_limits = EmptyMap
    /\ middleware_limits = EmptyMap
    /\ last_cleanup = 0
    /\ observed = NoCheck
    /\ subject = NoSubject
    /\ uncleaned = EmptyMap
    /\ threads = EmptyMap

\* ------------------------------------------------------------ value shapes
\* Python's None / an absent cookie, shaped like a token
NoToken == [sub |-> "-", exp |-> -1, type |-> "-", sig |-> "-"]
\* jwt.decode raising JWTError, mapped to None by the decode_* functions
NoPayload == [sub |-> "-", exp |-> -1, type |-> "-"]
NoUser == [id |-> 0, username |-> "-", hashed_password |-> <<"bcrypt", "-">>, is_active |-> FALSE]

\* pwd_context.hash: an opaque value that only the same plaintext verifies
get_password_hash(password) == <<"bcrypt", password>>
verify_password(plain_password, hashed_password) ==
    hashed_password[2] = plain_password

\* rows of table users, as AuthService.create_user stores them
Users ==
    { [id |-> 1, username |-> "alice", hashed_password |-> get_password_hash("alicepw"), is_active |-> TRUE],
      [id |-> 2, username |-> "bob", hashed_password |-> get_password_hash("bobpw"), is_active |-> TRUE] }

\* inputs of the login form
Usernames == {"alice", "bob", "mallory"}
Passwords == {"alicepw", "bobpw"}

\* db.query(User).filter(User.username == username).first()
UserByName(username) ==
    IF \E u \in Users : u.username = username
    THEN CHOOSE u \in Users : u.username = username
    ELSE NoUser

\* ------------------------------------------------------------------- JWTs
\* timegm(dt.utctimetuple()): a datetime truncated to whole seconds
timegm(t) == t \div TicksPerSecond

\* jwt.encode(claims, SECRET_KEY, HS256): deterministic in the claims
jwt_encode(claims) ==
    [sub |-> claims.sub, exp |-> claims.exp, type |-> claims.type, sig |-> "ok"]

\* jwt.decode(token, SECRET_KEY, algorithms=[HS256]) at time t:
\* JWTError (NoPayload) on a bad signature or when exp < now (whole seconds)
jwt_decode(token, t) ==
    IF token.sig # "ok" THEN NoPayload
    ELSE IF token.exp < timegm(t) THEN NoPayload
    ELSE [sub |-> token.sub, exp |-> token.exp, type |-> token.type]

\* the claim "type" is absent from access tokens: type = "none"
create_access_token(data, expires_delta, t) ==
    jwt_encode([sub |-> data.sub, exp |-> timegm(t + expires_delta), type |-> "none"])

\* a decode that does not verify the signature
decode_access_token_unverified(token, t) ==
    IF token.exp < timegm(t) THEN NoPayload
    ELSE [sub |-> token.sub, exp |-> token.exp, type |-> token.type]
\* jwt.decode inside try / except JWTError: return None
decode_access_token(token, t) == jwt_decode(token, t)

\* a refresh token issued without the "type" claim
create_refresh_token_untyped(data, expires_delta, t) ==
    jwt_encode([sub |-> data.sub, exp |-> timegm(t + expires_delta), type |-> "none"])

create_refresh_token(data, expires_delta, t) ==
    jwt_encode([sub |-> data.sub, exp |-> timegm(t + expires_delta), type |-> "refresh"])

\* a decode that forgets the check of the "type" claim
decode_refresh_token_any_type(token, t) == jwt_decode(token, t)

decode_refresh_token(token, t) ==
    LET payload == jwt_decode(token, t)
    IN  IF payload = NoPayload THEN NoPayload
        ELSE IF payload.type # "refresh" THEN NoPayload
        ELSE payload

\* hashlib.sha256(token).hexdigest(): collision-free digest of the raw token
hash_token(token) == <<"sha256", token.sub, token.exp, token.type, token.sig>>

\* ------------------------------------------------------------- responses
Resp(status, detail, access_token, refresh_token, token_type) ==
    [status |-> status, detail |-> detail, access_token |-> access_token,
     refresh_token |-> refresh_token, token_type |-> token_type]

Fail(status, detail) == Resp(status, detail, NoToken, NoToken, "-")

\* ------------------------------------------------- table refresh_tokens
\* RefreshToken(user_id=..., token=..., expires_at=...), revoked default False
RefreshToken(id, user_id, token, expires_at) ==
    [id |-> id, user_id |-> user_id, token |-> token, expires_at |-> expires_at,
     revoked |-> FALSE]

\* .first() of a query: the matching row with the lowest id, 0 for None
first(matching) ==
    IF matching = {} THEN 0
    ELSE CHOOSE i \in matching : \A j \in matching : i <= j

\* the lookup without the filter revoked == False
find_active_ignoring_revoked(rows, hashed_token) ==
    first({i \in DOMAIN rows : rows[i].token = hashed_token})

\* query(RefreshToken).filter(token == hashed_token, revoked == False).first()
find_active(rows, hashed_token) ==
    first({i \in DOMAIN rows : rows[i].token = hashed_token /\ ~rows[i].revoked})

\* the lookup without the filter user_id == current_user.id
find_owned_by_anyone(rows, hashed_token, user_id) ==
    first({i \in DOMAIN rows : rows[i].token = hashed_token})

\* query(RefreshToken).filter(token == hashed_token, user_id == current_user.id).first()
find_owned(rows, hashed_token, user_id) ==
    first({i \in DOMAIN rows : rows[i].token = hashed_token /\ rows[i].user_id = user_id})

\* a write that flips the flag instead of setting it
mark_revoked_toggling(rows, i) == [rows EXCEPT ![i].revoked = ~rows[i].revoked]

\* db_token.revoked = True; db.commit()
mark_revoked(rows, i) == [rows EXCEPT ![i].revoked = TRUE]

\* a table without the unique index on token
insert_never_violates(rows, hashed_token) == FALSE

\* db.add(row); db.commit(): the unique index ix_refresh_tokens_token makes
\* the commit raise IntegrityError when the hash is already stored
insert_violates_unique(rows, hashed_token) ==
    \E i \in DOMAIN rows : rows[i].token = hashed_token

\* ---------------------------------------------------------------- service
\* a credential check that tells an unknown username from a wrong password
authenticate_user_telling(username, password) ==
    LET user == UserByName(username)
    IN  IF user = NoUser
        THEN [user |-> NoUser, resp |-> Fail(HTTP_404_NOT_FOUND, "User not found")]
        ELSE IF ~verify_password(password, user.hashed_password)
        THEN [user |-> NoUser,
              resp |-> Fail(HTTP_401_UNAUTHORIZED, "Incorrect username or password")]
        ELSE [user |-> user, resp |-> Fail(HTTP_200_OK, "")]

authenticate_user(username, password) ==
    LET user == UserByName(username)
    IN  IF user = NoUser
        THEN [user |-> NoUser,
              resp |-> Fail(HTTP_401_UNAUTHORIZED, "Incorrect username or password")]
        ELSE IF ~verify_password(password, user.hashed_password)
        THEN [user |-> NoUser,
              resp |-> Fail(HTTP_401_UNAUTHORIZED, "Incorrect username or password")]
        ELSE [user |-> user, resp |-> Fail(HTTP_200_OK, "")]

\* a get_current_user that also asks for a live session of the user in table
\* refresh_tokens
get_current_user_with_session(token, t) ==
    LET payload == decode_access_token(token, t)
        user == IF token = NoToken \/ payload = NoPayload THEN NoUser
                ELSE UserByName(payload.sub)
    IN  IF user = NoUser \/ ~\E i \in DOMAIN refresh_tokens :
                                refresh_tokens[i].user_id = user.id /\ ~refresh_tokens[i].revoked
        THEN [user |-> NoUser,
              resp |-> Fail(HTTP_401_UNAUTHORIZED, "Could not validate credentials")]
        ELSE [user |-> user, resp |-> Fail(HTTP_200_OK, "")]
\* get_current_user (api/dependencies.py:38-70)
get_current_user(token, t) ==
    LET credentials_exception ==
            [user |-> NoUser,
             resp |-> Fail(HTTP_401_UNAUTHORIZED, "Could not validate credentials")]
    IN  IF token = NoToken THEN credentials_exception
        ELSE LET payload == decode_access_token(token, t)
             IN  IF payload = NoPayload THEN credentials_exception
                 ELSE IF payload.sub = "-" THEN credentials_exception
                 ELSE LET user == UserByName(payload.sub)
                      IN  IF user = NoUser THEN credentials_exception
                          ELSE [user |-> user, resp |-> Fail(HTTP_200_OK, "")]

get_current_active_user(token, t) ==
    LET current == get_current_user(token, t)
    IN  IF current.user = NoUser THEN current
        ELSE IF ~current.user.is_active
        THEN [user |-> NoUser, resp |-> Fail(HTTP_400_BAD_REQUEST, "Inactive user")]
        ELSE current

\* --------------------------------------------------------------- handlers
\* Every handler is a function of its inputs, the table and the clock and
\* yields the response, the table afterwards and the tokens it hands out.
Outcome(resp, rows, tokens) == [resp |-> resp, rows |-> rows, tokens |-> tokens]

\* POST /login; the handler's calls of utcnow() all read the instant t
login(username, password, rows, t) ==
    LET auth == authenticate_user(username, password)
        user == auth.user
        access_token == create_access_token([sub |-> user.username], access_token_expires, t)
        refresh_token == create_refresh_token([sub |-> user.username], refresh_token_expires, t)
        hashed_refresh_token == hash_token(refresh_token)
        db_refresh_token == RefreshToken(Len(rows) + 1, user.id, hashed_refresh_token,
                                         t + refresh_token_expires)
    IN  IF user = NoUser THEN Outcome(auth.resp, rows, {})
        ELSE IF insert_violates_unique(rows, hashed_refresh_token)
        THEN Outcome(Fail(HTTP_500_INTERNAL_SERVER_ERROR, "IntegrityError"), rows, {})
        ELSE Outcome(Resp(HTTP_200_OK, "", access_token, refresh_token, "bearer"),
                     Append(rows, db_refresh_token),
                     {access_token, refresh_token})

\* a logout that answers 404 when it finds no active record
logout_strict(refresh_token, rows) ==
    LET i == find_active(rows, hash_token(refresh_token))
    IN  IF refresh_token # NoToken /\ i # 0
        THEN Outcome(Fail(HTTP_200_OK, "Successfully logged out"), mark_revoked(rows, i), {})
        ELSE Outcome(Fail(HTTP_404_NOT_FOUND, "Refresh token not found"), rows, {})

\* POST /logout
logout(refresh_token, rows) ==
    LET ok == Fail(HTTP_200_OK, "Successfully logged out")
        i == find_active(rows, hash_token(refresh_token))
    IN  IF refresh_token # NoToken /\ i # 0
        THEN Outcome(ok, mark_revoked(rows, i), {})
        ELSE Outcome(ok, rows, {})

\* a refresh that rotates: the record used is revoked on success
refresh_issue_rotating(rows, i, user, t) ==
    LET access_token == create_access_token([sub |-> user.username], access_token_expires, t)
    IN  Outcome(Resp(HTTP_200_OK, "", access_token, NoToken, "bearer"),
                mark_revoked(rows, i), {access_token})

\* POST /refresh, lines 221-242: issue the new access token
refresh_issue(rows, i, user, t) ==
    LET access_token == create_access_token([sub |-> user.username], access_token_expires, t)
    IN  Outcome(Resp(HTTP_200_OK, "", access_token, NoToken, "bearer"), rows, {access_token})

\* POST /refresh
refresh_access_token(refresh_token, rows, t) ==
    IF refresh_token = NoToken
    THEN Outcome(Fail(HTTP_401_UNAUTHORIZED, "Refresh token missing"), rows, {})
    ELSE
    LET payload == decode_refresh_token(refresh_token, t)
        i == find_active(rows, hash_token(refresh_token))
        user == UserByName(payload.sub)
    IN  IF payload = NoPayload
        THEN Outcome(Fail(HTTP_401_UNAUTHORIZED, "Invalid or expired refresh token"), rows, {})
        ELSE IF payload.sub = "-"
        THEN Outcome(Fail(HTTP_401_UNAUTHORIZED, "Invalid refresh token payload"), rows, {})
        ELSE IF i = 0
        THEN Outcome(Fail(HTTP_401_UNAUTHORIZED, "Refresh token revoked or invalid"), rows, {})
        ELSE IF rows[i].expires_at < t
        THEN Outcome(Fail(HTTP_401_UNAUTHORIZED, "Refresh token expired"),
                     mark_revoked(rows, i), {})
        ELSE IF user = NoUser \/ ~user.is_active
        THEN Outcome(Fail(HTTP_401_UNAUTHORIZED, "User not found or inactive"), rows, {})
        ELSE refresh_issue(rows, i, user, t)

\* POST /revoke; auth is the access_token cookie / bearer header
revoke_refresh_token(auth, refresh_token, rows, t) ==
    LET current == get_current_active_user(auth, t)
        i == find_owned(rows, hash_token(refresh_token), current.user.id)
    IN  IF current.user = NoUser THEN Outcome(current.resp, rows, {})
        ELSE IF refresh_token = NoToken
        THEN Outcome(Fail(HTTP_400_BAD_REQUEST, "No refresh token provided"), rows, {})
        ELSE IF i # 0
        THEN Outcome(Fail(HTTP_200_OK, "Refresh token revoked successfully"),
                     mark_revoked(rows, i), {})
        ELSE Outcome(Fail(HTTP_404_NOT_FOUND, "Refresh token not found"), rows, {})

\* ---------------------------------------------------------- state machine
\* tokens an attacker can fabricate: well-formed but not signed with SECRET_KEY
Forged ==
    { [sub |-> "alice", exp |-> timegm(MaxTime) + 1, type |-> "refresh", sig |-> "bad"] }

\* response.set_cookie(key="access_token", ...) overwrites the access token a
\* user's client held; every refresh token handed out stays known
receive(held, tokens) ==
    LET replaced == {old \in held : old.type = "none" /\
                        \E new \in tokens : new.type = "none" /\ new.sub = old.sub}
    IN  (held \ replaced) \cup tokens

\* what a client can put into a cookie or header
Presentable == issued \cup Forged \cup {NoToken}
\* what a client sends as its credential: a token it holds, or nothing
Credentials == issued \cup {NoToken}
\* what a client sends as the refresh token to end: a refresh token it
\* holds, a fabricated one, or nothing
RefreshCookies == {token \in issued : token.type = "refresh"} \cup Forged \cup {NoToken}

\* a served request: its inputs, its response, and whether its commit changed
\* the table
Request(op, username, password, auth, token, r) ==
    [op |-> op, username |-> username, password |-> password, auth |-> auth,
     token |-> token, resp |-> r.resp, changed |-> (r.rows # refresh_tokens)]

Idle == Outcome(Fail(0, ""), refresh_tokens, {})

\* no request inside a handler, no user registered, no function applied
FlightAtRest ==
    /\ inflight = EmptyMap
    /\ users = <<>>
    /\ call = NoCall

PromptsAtRest ==
    /\ prompts = <<>>
    /\ prompt_versions = <<>>

\* the session tables before any request
AuthAtRest ==
    /\ now = 0
    /\ refresh_tokens = <<>>
    /\ issued = {}
    /\ last = Request("start", "-", "-", NoToken, NoToken, Idle)

Init ==
    /\ AuthAtRest
    /\ LimiterAtRest
    /\ FlightAtRest
    /\ PromptsAtRest

Login(username, password) ==
    LET r == login(username, password, refresh_tokens, now)
    IN  /\ Len(r.rows) <= MaxRows
        /\ refresh_tokens' = r.rows
        /\ issued' = receive(issued, r.tokens)
        /\ last' = Request("login", username, password, NoToken, NoToken, r)
        /\ UNCHANGED <<now, notauth>>

Logout(token) ==
    LET r == logout(token, refresh_tokens)
    IN  /\ refresh_tokens' = r.rows
        /\ issued' = receive(issued, r.tokens)
        /\ last' = Request("logout", "-", "-", NoToken, token, r)
        /\ UNCHANGED <<now, notauth>>

Refresh(token) ==
    LET r == refresh_access_token(token, refresh_tokens, now)
    IN  /\ refresh_tokens' = r.rows
        /\ issued' = receive(issued, r.tokens)
        /\ last' = Request("refresh", "-", "-", NoToken, token, r)
        /\ UNCHANGED <<now, notauth>>

Revoke(auth, token) ==
    LET r == revoke_refresh_token(auth, token, refresh_tokens, now)
    IN  /\ refresh_tokens' = r.rows
        /\ issued' = receive(issued, r.tokens)
        /\ last' = Request("revoke", "-", "-", auth, token, r)
        /\ UNCHANGED <<now, notauth>>

\* the clock advances: by one tick, or by the refresh-token lifetime
Tick(d) ==
    /\ now + d \in Instants
    /\ now' = now + d
    /\ last' = Request("tick", "-", "-", NoToken, NoToken, Idle)
    /\ UNCHANGED <<refresh_tokens, issued, notauth>>

Next ==
    \/ \E username \in Usernames, password \in Passwords : Login(username, password)
    \/ \E token \in RefreshCookies : Logout(token)
    \/ \E token \in Presentable : Refresh(token)
    \/ \E auth \in Credentials, token \in RefreshCookies : Revoke(auth, token)
    \/ \E d \in {1, refresh_token_expires} : Tick(d)

Spec == Init /\ [][Next]_vars

TypeOK ==
    /\ now \in Instants
    /\ Len(refresh_tokens) <= MaxRows

\* ------------------------------------------------------------ properties
\* the rows of the table that store the hash of a raw token
RowsOf(rows, token) == {i \in DOMAIN rows : rows[i].token = hash_token(token)}

\* credentials that authenticate no user
BadCredentials(username, password) ==
    \/ UserByName(username) = NoUser
    \/ ~verify_password(password, UserByName(username).hashed_password)

\* C1: a refresh with a token whose stored record is revoked is rejected with
\* 401 and hands out no access token, although the token still decodes.
C1_RevokedRefreshRejected ==
    [][(last'.op = "refresh" /\
        \E i \in RowsOf(refresh_tokens, last'.token) : refresh_tokens[i].revoked)
       => /\ last'.resp.status = HTTP_401_UNAUTHORIZED
          /\ last'.resp.access_token = NoToken
          /\ issued' = issued]_vars

C1_Witness ==
    /\ last.op = "refresh"
    /\ decode_refresh_token(last.token, now) # NoPayload
    /\ \E i \in RowsOf(refresh_tokens, last.token) : refresh_tokens[i].revoked
    /\ last.resp = Fail(HTTP_401_UNAUTHORIZED, "Refresh token revoked or invalid")

\* C2: a revoked record stays in the table, unchanged and revoked, and no row
\* that stores the same token hash is ever active again.
C2_RevokedStaysRevoked ==
    [][\A i \in DOMAIN refresh_tokens : refresh_tokens[i].revoked =>
          /\ i \in DOMAIN refresh_tokens'
          /\ refresh_tokens'[i] = refresh_tokens[i]
          /\ \A j \in DOMAIN refresh_tokens' :
                refresh_tokens'[j].token = refresh_tokens[i].token
                    => refresh_tokens'[j].revoked]_vars

C2_Witness ==
    /\ last.op = "login"
    /\ ~BadCredentials(last.username, last.password)
    /\ last.resp.status = HTTP_500_INTERNAL_SERVER_ERROR
    /\ \E i \in RowsOf(refresh_tokens,
                       create_refresh_token([sub |-> last.username],
                                            refresh_token_expires, now)) :
            refresh_tokens[i].revoked

\* C3: a refresh token presented where an access token is required (the
\* credential of POST /revoke) is answered 401.
C3_RefreshTokenNotAnAccessToken ==
    (last.op = "revoke" /\ last.auth.type = "refresh")
        => last.resp = Fail(HTTP_401_UNAUTHORIZED, "Could not validate credentials")

\* C4: decode_refresh_token yields None for every token made by
\* create_access_token, and POST /refresh rejects an access token.
C4_AccessTokenNotARefreshToken ==
    /\ \A u \in Usernames, t \in Instants,
          ttl \in {access_token_expires, refresh_token_expires} :
            decode_refresh_token(create_access_token([sub |-> u], ttl, t), now) = NoPayload
    /\ (last.op = "refresh" /\ last.token.type = "none")
            => last.resp = Fail(HTTP_401_UNAUTHORIZED, "Invalid or expired refresh token")

C4_Witness ==
    /\ last.op = "refresh"
    /\ last.token \in issued
    /\ last.token.type = "none"
    /\ decode_access_token(last.token, now) # NoPayload
    /\ last.resp.status = HTTP_401_UNAUTHORIZED

\* C5: a refresh with a token whose stored expires_at has passed is rejected
\* and leaves the stored record revoked.
C5_ExpiredRefreshMarksRevoked ==
    [][(last'.op = "refresh" /\
        \E i \in RowsOf(refresh_tokens, last'.token) : refresh_tokens[i].expires_at < now)
       => /\ last'.resp.status = HTTP_401_UNAUTHORIZED
          /\ \A i \in RowsOf(refresh_tokens', last'.token) : refresh_tokens'[i].revoked]_vars

\* C6: a revoke by an authenticated user of a token whose record belongs to
\* another user, or that has no record, is answered 404 "Refresh token not
\* found" and leaves the table unchanged.
C6_CrossUserRevokeNotFound ==
    [][LET current == get_current_active_user(last'.auth, now).user
       IN  (/\ last'.op = "revoke"
            /\ current # NoUser
            /\ last'.token # NoToken
            /\ \A i \in RowsOf(refresh_tokens, last'.token) :
                    refresh_tokens[i].user_id # current.id)
           => /\ last'.resp = Fail(HTTP_404_NOT_FOUND, "Refresh token not found")
              /\ refresh_tokens' = refresh_tokens]_vars

C6_Witness ==
    /\ last.op = "revoke"
    /\ last.resp.status = HTTP_404_NOT_FOUND
    /\ \E i \in RowsOf(refresh_tokens, last.token) :
            /\ refresh_tokens[i].user_id # get_current_active_user(last.auth, now).user.id
            /\ ~refresh_tokens[i].revoked
    /\ refresh_access_token(last.token, refresh_tokens, now).resp.status = HTTP_200_OK

\* C7: a login with an unknown username and a login with a wrong password
\* get the same response, 401 "Incorrect username or password", and change
\* neither the table nor the tokens handed out.
C7_LoginFailureUniform ==
    [][(last'.op = "login" /\ BadCredentials(last'.username, last'.password))
       => /\ last'.resp = Fail(HTTP_401_UNAUTHORIZED, "Incorrect username or password")
          /\ refresh_tokens' = refresh_tokens
          /\ issued' = issued]_vars

C7_Witness ==
    /\ last.op = "login"
    /\ UserByName(last.username) = NoUser
    /\ last.resp = Fail(HTTP_401_UNAUTHORIZED, "Incorrect username or password")
    /\ refresh_tokens # <<>>

\* C8: right after a successful login the response carries an access token
\* for the username, a refresh token and token_type "bearer"; the table holds
\* an active record of that user under the hash of the refresh token, and a
\* refresh with it succeeds.
C8_LoginRecordsActiveToken ==
    (last.op = "login" /\ last.resp.status = HTTP_200_OK)
        => /\ decode_access_token(last.resp.access_token, now).sub = last.username
           /\ decode_refresh_token(last.resp.refresh_token, now) # NoPayload
           /\ last.resp.token_type = "bearer"
           /\ \E i \in RowsOf(refresh_tokens, last.resp.refresh_token) :
                    /\ ~refresh_tokens[i].revoked
                    /\ refresh_tokens[i].user_id = UserByName(last.username).id
           /\ refresh_access_token(last.resp.refresh_token, refresh_tokens, now).resp.status
                    = HTTP_200_OK

C8_Witness ==
    /\ last.op = "login"
    /\ last.resp.status = HTTP_200_OK
    /\ Len(refresh_tokens) = 2
    /\ refresh_tokens[1].revoked

\* C9: every login with correct credentials succeeds and appends its own
\* active row, leaving the earlier rows as they were.
C9_EveryLoginAddsARow ==
    [][(last'.op = "login" /\ ~BadCredentials(last'.username, last'.password))
       => /\ last'.resp.status = HTTP_200_OK
          /\ Len(refresh_tokens') = Len(refresh_tokens) + 1
          /\ SubSeq(refresh_tokens', 1, Len(refresh_tokens)) = refresh_tokens
          /\ ~refresh_tokens'[Len(refresh_tokens')].revoked]_vars

\* C10: a successful refresh leaves the table unchanged and returns an access
\* token only; the same refresh token then refreshes again.
C10_RefreshLeavesStore ==
    [][(last'.op = "refresh" /\ last'.resp.status = HTTP_200_OK)
       => /\ refresh_tokens' = refresh_tokens
          /\ last'.resp.refresh_token = NoToken
          /\ last'.resp.access_token.type = "none"
          /\ refresh_access_token(last'.token, refresh_tokens', now').resp.status
                = HTTP_200_OK]_vars

C10_Witness ==
    /\ last.op = "refresh"
    /\ last.resp.status = HTTP_200_OK
    /\ last.resp.access_token \in issued
    /\ \E i \in RowsOf(refresh_tokens, last.token) : ~refresh_tokens[i].revoked

\* C11: a revoke by the owner succeeds whether or not the record is already
\* revoked, and leaves the record revoked and everything else as it was, so a
\* second revoke changes nothing.
C11_RevokeIdempotent ==
    [][LET current == get_current_active_user(last'.auth, now).user
       IN  \A i \in RowsOf(refresh_tokens, last'.token) :
            (last'.op = "revoke" /\ current # NoUser /\
             refresh_tokens[i].user_id = current.id)
            => /\ last'.resp = Fail(HTTP_200_OK, "Refresh token revoked successfully")
               /\ refresh_tokens' = [refresh_tokens EXCEPT ![i].revoked = TRUE]
               /\ (refresh_tokens[i].revoked => refresh_tokens' = refresh_tokens)
               /\ issued' = issued]_vars

C11_Witness ==
    /\ last.op = "revoke"
    /\ last.resp.status = HTTP_200_OK
    /\ ~last.changed
    /\ \E i \in RowsOf(refresh_tokens, last.token) : refresh_tokens[i].revoked

\* C12: a logout answers success for every input; it changes the table at
\* most by revoking the active record of the token presented.
C12_LogoutAlwaysSucceeds ==
    [][last'.op = "logout"
       => /\ last'.resp = Fail(HTTP_200_OK, "Successfully logged out")
          /\ issued' = issued
          /\ \A i \in RowsOf(refresh_tokens, last'.token) : refresh_tokens'[i].revoked
          /\ \A i \in DOMAIN refresh_tokens :
                i \notin RowsOf(refresh_tokens, last'.token)
                    => refresh_tokens'[i] = refresh_tokens[i]
          /\ DOMAIN refresh_tokens' = DOMAIN refresh_tokens
          /\ \A i \in DOMAIN refresh_tokens :
                refresh_tokens'[i] = [refresh_tokens[i] EXCEPT !.revoked = refresh_tokens'[i].revoked]]_vars

C12_Witness ==
    /\ last.op = "logout"
    /\ last.resp.status = HTTP_200_OK
    /\ ~last.changed
    /\ \E i \in RowsOf(refresh_tokens, last.token) : refresh_tokens[i].revoked

\* C21: whether a token a client holds is accepted as its credential depends
\* on the token and the time alone (signature, and exp in whole seconds),
\* whatever logins, refreshes, logouts and revokes were served before: a
\* request that presents it is refused with 401 exactly when it has expired.
C21_AccessTokenValidityFrame ==
    [][(last'.op = "revoke" /\ last'.auth # NoToken)
       => ((last'.resp.status = HTTP_401_UNAUTHORIZED)
            <=> ~(last'.auth.sig = "ok" /\ timegm(now') <= last'.auth.exp))]_vars

\* an access token is accepted although every session of its user is revoked
C21_Witness ==
    /\ last.op = "revoke"
    /\ last.auth # NoToken
    /\ last.auth.type = "none"
    /\ last.resp.status = HTTP_200_OK
    /\ ~last.changed
    /\ \E i \in DOMAIN refresh_tokens : refresh_tokens[i].user_id = UserByName(last.auth.sub).id
    /\ \A i \in DOMAIN refresh_tokens :
            refresh_tokens[i].user_id = UserByName(last.auth.sub).id => refresh_tokens[i].revoked

\* ============================================================ rate limiting
\* app/core/rate_limiter.py (EndpointRateLimiter and its dependency
\* functions) and app/core/security_middleware.py (RateLimitMiddleware).
\*
\* A bucket's "tokens" float is kept exactly, in units of 1/Token of a token:
\* in one tick a bucket gains rate_per_minute units, so that
\* time_elapsed * (rate_per_minute / 60) tokens is time_elapsed *
\* rate_per_minute units.

HTTP_429_TOO_MANY_REQUESTS == 429
RATE_LIMIT_PER_MINUTE == 60
RATE_LIMIT_BURST == 10
cleanup_interval == 3600

\* one whole token, in units
Token == 60 * TicksPerSecond

\* the limits the dependency functions ai_endpoint_rate_limit,
\* heavy_compute_rate_limit and strict_rate_limit pass to check_rate_limit
EndpointClasses ==
    { [endpoint |-> "ai_operation", rate_per_minute |-> 10, burst |-> 15],
      [endpoint |-> "heavy_compute", rate_per_minute |-> 5, burst |-> 10],
      [endpoint |-> "strict", rate_per_minute |-> 3, burst |-> 5] }

\* what a rate-limited request shows of its sender
Requests ==
    { [host |-> "10.0.0.1", cookie |-> "", bearer |-> "", path |-> "/api/prompts"],
      [host |-> "10.0.0.1", cookie |-> "", bearer |-> "t1", path |-> "/api/prompts"],
      [host |-> "10.0.0.1", cookie |-> "", bearer |-> "", path |-> "/health"] }

\* int(x) of a number of seconds given in ticks: truncation towards zero
int(ticks) ==
    IF ticks >= 0 THEN ticks \div TicksPerSecond ELSE -((-ticks) \div TicksPerSecond)

\* math.ceil(x) of a number of seconds given in ticks
ceil(ticks) == -((-ticks) \div TicksPerSecond)

Min(a, b) == IF a <= b THEN a ELSE b

\* hashlib.sha256(token.encode()).hexdigest()[:16]
sha256_16(token) == <<"sha256", token>>

\* EndpointRateLimiter._get_client_identifier: the cookie, else the bearer
\* header
endpoint_client_identifier(request) ==
    LET token == IF request.cookie # "" THEN request.cookie ELSE request.bearer
    IN  IF token # "" THEN <<request.host, sha256_16(token)>> ELSE <<request.host>>

\* RateLimitMiddleware._get_client_identifier: the bearer header only
middleware_client_identifier(request) ==
    IF request.bearer # "" THEN <<request.host, sha256_16(request.bearer)>>
    ELSE <<request.host>>

Bucket(tokens, last_update) == [tokens |-> tokens, last_update |-> last_update]

\* d[key] = value on a dict
Put(map, key, value) == [k \in DOMAIN map \cup {key} |-> IF k = key THEN value ELSE map[k]]

\* a first bucket one token short of the burst
fresh_bucket_short(burst, current_time) == Bucket((burst - 1) * Token, current_time)
\* {"tokens": float(burst), "last_update": current_time}
fresh_bucket(burst, current_time) == Bucket(burst * Token, current_time)

\* a refill that credits a token per second whatever the rate
tokens_to_add_per_second(time_elapsed, rate_per_minute) == time_elapsed * 60
\* time_elapsed * (rate_per_minute / 60), in units
tokens_to_add(time_elapsed, rate_per_minute) == time_elapsed * rate_per_minute

\* the refill without the cap at burst
refill_uncapped(burst, tokens, added) == tokens + added
\* min(float(burst), client_data["tokens"] + tokens_to_add)
refill(burst, tokens, added) == Min(burst * Token, tokens + added)

\* a refill that creates a missing bucket and leaves an existing one untouched
_refill_tokens_creating_only(limits, client_id, endpoint, rate_per_minute, burst, current_time) ==
    LET of_client == IF client_id \in DOMAIN limits THEN limits[client_id] ELSE EmptyMap
    IN  IF endpoint \notin DOMAIN of_client
        THEN Put(limits, client_id, Put(of_client, endpoint, fresh_bucket(burst, current_time)))
        ELSE limits
\* EndpointRateLimiter._refill_tokens; self.rate_limits[client_id] on the
\* defaultdict creates the client's entry
_refill_tokens(limits, client_id, endpoint, rate_per_minute, burst, current_time) ==
    LET of_client == IF client_id \in DOMAIN limits THEN limits[client_id] ELSE EmptyMap
    IN  IF endpoint \notin DOMAIN of_client
        THEN Put(limits, client_id, Put(of_client, endpoint, fresh_bucket(burst, current_time)))
        ELSE LET client_data == of_client[endpoint]
                 time_elapsed == current_time - client_data.last_update
                 added == tokens_to_add(time_elapsed, rate_per_minute)
             IN  Put(limits, client_id,
                     Put(of_client, endpoint,
                         Bucket(refill(burst, client_data.tokens, added), current_time)))

\* a cutoff at the present: every bucket not written just now is old
cutoff_time_now(current_time) == current_time
\* cutoff_time = current_time - 3600
cutoff_time(current_time) == current_time - 3600 * TicksPerSecond

\* a sweep that also removes the buckets written exactly an hour ago
_cleanup_entries_an_hour_old(limits, cleaned, current_time) ==
    IF current_time - cleaned > cleanup_interval * TicksPerSecond
    THEN LET kept(client_id) ==
                 {endpoint \in DOMAIN limits[client_id] :
                     ~(limits[client_id][endpoint].last_update <= cutoff_time(current_time))}
             clients == {client_id \in DOMAIN limits : kept(client_id) # {}}
         IN  [rate_limits |-> [client_id \in clients |->
                                  [endpoint \in kept(client_id) |-> limits[client_id][endpoint]]],
              last_cleanup |-> current_time]
    ELSE [rate_limits |-> limits, last_cleanup |-> cleaned]
\* EndpointRateLimiter._cleanup_old_entries
_cleanup_old_entries(limits, cleaned, current_time) ==
    IF current_time - cleaned > cleanup_interval * TicksPerSecond
    THEN LET kept(client_id) ==
                 {endpoint \in DOMAIN limits[client_id] :
                     ~(limits[client_id][endpoint].last_update < cutoff_time(current_time))}
             clients == {client_id \in DOMAIN limits : kept(client_id) # {}}
         IN  [rate_limits |-> [client_id \in clients |->
                                  [endpoint \in kept(client_id) |-> limits[client_id][endpoint]]],
              last_cleanup |-> current_time]
    ELSE [rate_limits |-> limits, last_cleanup |-> cleaned]

\* EndpointRateLimiter.check_rate_limit; took is the time that passes between
\* the time.time() of the refill and the time.time() of the retry_after
check_rate_limit(limits, cleaned, request, endpoint, rate_per_minute, burst, t, took) ==
    LET client_id == endpoint_client_identifier(request)
        refilled == _refill_tokens(limits, client_id, endpoint, rate_per_minute, burst, t)
        bucket == refilled[client_id][endpoint]
    IN  IF bucket.tokens >= Token
        THEN LET consumed == Put(refilled, client_id,
                                 Put(refilled[client_id], endpoint,
                                     Bucket(bucket.tokens - Token, bucket.last_update)))
                 swept == _cleanup_old_entries(consumed, cleaned, t)
             IN  [status |-> HTTP_200_OK, retry_after |-> 0,
                  rate_limits |-> swept.rate_limits, last_cleanup |-> swept.last_cleanup]
        ELSE [status |-> HTTP_429_TOO_MANY_REQUESTS,
              retry_after |-> int(60 * TicksPerSecond - ((t + took) - bucket.last_update)),
              rate_limits |-> refilled, last_cleanup |-> cleaned]

\* RateLimitMiddleware._refill_tokens; a client not seen before gets its
\* entry from the defaultdict factory, whose time.time() is read made after
\* current_time was
middleware_refill_tokens(limits, client_id, current_time, made) ==
    LET client_data == IF client_id \in DOMAIN limits THEN limits[client_id]
                       ELSE fresh_bucket(RATE_LIMIT_BURST, current_time + made)
        time_elapsed == current_time - client_data.last_update
        added == tokens_to_add(time_elapsed, RATE_LIMIT_PER_MINUTE)
    IN  Put(limits, client_id,
            Bucket(refill(RATE_LIMIT_BURST, client_data.tokens, added), current_time))

\* a dispatch that takes a token without testing for one
dispatch_consuming_always(limits, request, t, made, took) ==
    IF request.path = "/health"
    THEN [status |-> HTTP_200_OK, retry_after |-> 0, rate_limits |-> limits]
    ELSE LET client_id == middleware_client_identifier(request)
             refilled == middleware_refill_tokens(limits, client_id, t, made)
             bucket == refilled[client_id]
         IN  [status |-> HTTP_200_OK, retry_after |-> 0,
              rate_limits |-> Put(refilled, client_id,
                                  Bucket(bucket.tokens - Token, bucket.last_update))]
\* RateLimitMiddleware.dispatch: both branches return before the call of
\* _cleanup_old_entries is reached
dispatch(limits, request, t, made, took) ==
    IF request.path = "/health"
    THEN [status |-> HTTP_200_OK, retry_after |-> 0, rate_limits |-> limits]
    ELSE LET client_id == middleware_client_identifier(request)
             refilled == middleware_refill_tokens(limits, client_id, t, made)
             bucket == refilled[client_id]
         IN  IF bucket.tokens >= Token
             THEN [status |-> HTTP_200_OK, retry_after |-> 0,
                   rate_limits |-> Put(refilled, client_id,
                                       Bucket(bucket.tokens - Token, bucket.last_update))]
             ELSE [status |-> HTTP_429_TOO_MANY_REQUESTS,
                   retry_after |-> int(60 * TicksPerSecond - ((t + took) - bucket.last_update)),
                   rate_limits |-> refilled]

\* ------------------------------------------- rate limiting: state machine
\* the waits the clock makes: a tick, a second, the time in which each class
\* refills one token, and just over the cleanup interval
Waits ==
    {1, TicksPerSecond, Token \div RATE_LIMIT_PER_MINUTE}
        \cup {Token \div class.rate_per_minute : class \in EndpointClasses}
        \cup {cleanup_interval * TicksPerSecond + 1}

\* the instants the clock visits, in any order of time: up to Slack ticks
\* after the start and after each wait from the start
Moments == UNION {w..(w + Slack) : w \in {0} \cup Waits}

\* the buckets that exist, over both limiters
BucketsOf(endpoint_limits, global_limits) ==
    UNION {{<<client_id, endpoint>> : endpoint \in DOMAIN endpoint_limits[client_id]} :
              client_id \in DOMAIN endpoint_limits}
    \cup {<<client_id, "-">> : client_id \in DOMAIN global_limits}

\* the record of a check: which bucket, the outcome, and where the check
\* stands in a run of checks on that bucket.
\*   at          the clock when the check returned
\*   nth         position in a run of checks that began with the creation of
\*               the bucket, between which the clock did not move, and that
\*               ends with its first denial; 0 if the check is in no such run
\*   denied_at   the time of the last denial on this bucket, if every check
\*               since was made at one later instant and was allowed; else -1
\*   left, hint  the tokens the bucket held after that denial, and the
\*               retry_after the denial carried
\*   resumed_at  the instant of the checks since that denial; -1 if none
\*   granted     how many checks since that denial were allowed
Observe(limiter, client_id, endpoint, rate_per_minute, burst, fresh, r, tokens, t, at) ==
    LET same == /\ observed.limiter = limiter
                /\ observed.client_id = client_id
                /\ observed.endpoint = endpoint
        allowed == r.status = HTTP_200_OK
        follows == same /\ observed.denied_at # -1 /\ observed.resumed_at \in {-1, t}
    IN  [limiter |-> limiter, client_id |-> client_id, endpoint |-> endpoint,
         rate_per_minute |-> rate_per_minute, burst |-> burst,
         allowed |-> allowed, retry_after |-> r.retry_after, at |-> at,
         nth |-> IF fresh THEN 1
                 ELSE IF same /\ observed.nth > 0 /\ observed.allowed /\ observed.at = t
                      THEN observed.nth + 1
                 ELSE 0,
         denied_at |-> IF ~allowed THEN t ELSE IF follows THEN observed.denied_at ELSE -1,
         left |-> IF ~allowed THEN tokens ELSE IF follows THEN observed.left ELSE 0,
         hint |-> IF ~allowed THEN r.retry_after ELSE IF follows THEN observed.hint ELSE 0,
         resumed_at |-> IF allowed /\ follows THEN t ELSE -1,
         granted |-> IF allowed /\ follows THEN observed.granted + 1 ELSE 0]

\* the limit RateLimitMiddleware applies, in the shape of a class
GlobalClass ==
    [endpoint |-> "-", rate_per_minute |-> RATE_LIMIT_PER_MINUTE, burst |-> RATE_LIMIT_BURST]

\* a run exercises one bucket: that of one sender under one limit
Subjects ==
    {[limiter |-> "endpoint", request |-> request, class |-> class] :
        request \in Requests, class \in EndpointClasses}
    \cup {[limiter |-> "middleware", request |-> request, class |-> GlobalClass] :
            request \in Requests}

LimiterInit ==
    /\ clock = 0
    /\ rate_limits = EmptyMap
    /\ middleware_limits = EmptyMap
    /\ last_cleanup = 0
    /\ observed = NoCheck
    /\ subject \in Subjects
    /\ uncleaned = EmptyMap
    /\ threads = EmptyMap
    /\ AuthAtRest
    /\ FlightAtRest
    /\ PromptsAtRest

\* a request passes a dependency function of the endpoint limiter
Check(request, class, took) ==
    LET client_id == endpoint_client_identifier(request)
        fresh == ~(client_id \in DOMAIN rate_limits /\ class.endpoint \in DOMAIN rate_limits[client_id])
        r == check_rate_limit(rate_limits, last_cleanup, request, class.endpoint,
                              class.rate_per_minute, class.burst, clock, took)
        tokens == _refill_tokens(rate_limits, client_id, class.endpoint, class.rate_per_minute,
                                 class.burst, clock)[client_id][class.endpoint].tokens
    IN  /\ threads = EmptyMap
        /\ clock + took \in Moments
        /\ r.status = HTTP_200_OK => took = 0
        /\ rate_limits' = r.rate_limits
        /\ last_cleanup' = r.last_cleanup
        /\ clock' = clock + took
        /\ observed' = Observe("endpoint", client_id, class.endpoint, class.rate_per_minute,
                               class.burst, fresh, r, tokens, clock, clock + took)
        /\ UNCHANGED <<middleware_limits, subject, uncleaned, threads, notlimit>>

\* a request passes the middleware
Dispatch(request, made, took) ==
    LET client_id == middleware_client_identifier(request)
        fresh == client_id \notin DOMAIN middleware_limits
        r == dispatch(middleware_limits, request, clock, made, took)
        tokens == middleware_refill_tokens(middleware_limits, client_id, clock, made)[client_id].tokens
    IN  /\ threads = EmptyMap
        /\ clock + made + took \in Moments
        /\ ~fresh => made = 0
        /\ r.status = HTTP_200_OK => took = 0
        /\ middleware_limits' = r.rate_limits
        /\ clock' = clock + made + took
        /\ observed' = IF request.path = "/health" THEN observed
                       ELSE Observe("middleware", client_id, "-", RATE_LIMIT_PER_MINUTE,
                                    RATE_LIMIT_BURST, fresh, r, tokens, clock, clock + made + took)
        /\ UNCHANGED <<rate_limits, last_cleanup, subject, uncleaned, threads, notlimit>>

\* time passes with no request
Wait(d) ==
    /\ threads = EmptyMap
    /\ d > 0
    /\ clock + d \in Moments
    /\ clock' = clock + d
    /\ UNCHANGED <<rate_limits, middleware_limits, last_cleanup, observed, subject, uncleaned, threads, notlimit>>

LimiterNext ==
    \/ \E took \in {0, 1} :
          subject.limiter = "endpoint" /\ Check(subject.request, subject.class, took)
    \/ \E made \in {0, 1}, took \in {0, 1} :
          subject.limiter = "middleware" /\ Dispatch(subject.request, made, took)
    \/ \E to \in Moments : Wait(to - clock)

LimiterSpec == LimiterInit /\ [][LimiterNext]_vars

LimiterTypeOK ==
    /\ clock \in Moments
    /\ subject \in Subjects
    /\ \A key \in BucketsOf(rate_limits, middleware_limits) :
          key[1] \in {endpoint_client_identifier(subject.request),
                      middleware_client_identifier(subject.request)}

\* ------------------------------------------------ rate limiting: properties
\* the burst of the bucket a key names
BurstOf(endpoint) ==
    IF endpoint = "-" THEN RATE_LIMIT_BURST
    ELSE (CHOOSE class \in EndpointClasses : class.endpoint = endpoint).burst

\* the bucket the last check was made on
Checked ==
    IF observed.limiter = "endpoint" THEN rate_limits[observed.client_id][observed.endpoint]
    ELSE middleware_limits[observed.client_id]

\* C13: of the checks made on a key not seen before with no time passing
\* between them, the first B (the burst of its limit) are allowed and the
\* (B+1)-th is denied.
C13_BurstThenDenied ==
    observed.nth > 0 =>
        /\ observed.nth <= observed.burst + 1
        /\ (observed.allowed <=> observed.nth <= observed.burst)

C13_Witness ==
    /\ observed.limiter = "endpoint"
    /\ observed.nth = observed.burst + 1
    /\ ~observed.allowed

\* the wait since the denial recorded in observed, up to the present check
SinceDenial == clock - observed.denied_at

\* a check is denied that follows, after a wait, a denial and the checks
\* allowed at this instant
DeniedAfterWait ==
    /\ observed.denied_at # -1
    /\ observed.denied_at < clock
    /\ observed.resumed_at \in {-1, clock}
    /\ ~observed'.allowed
    /\ observed'.denied_at = clock

\* C14 as stated: after a denial and a wait of d seconds, the calls allowed
\* number floor(d * rate_per_minute / 60), capped at burst.
C14_AllowedAfterWaitByElapsedOnly ==
    [][DeniedAfterWait =>
          observed.granted =
              Min(observed.burst, (SinceDenial * observed.rate_per_minute) \div Token)]_vars

\* C14, amended: after a denial that left f < 1 tokens in the bucket and a
\* wait of d seconds, the calls allowed number floor(f + d * rate_per_minute
\* / 60), capped at burst; after the wait that refills exactly one token
\* that is one call: the first is allowed and the next is denied.
C14_AllowedAfterWait ==
    [][DeniedAfterWait =>
          /\ observed.left < Token
          /\ observed.granted =
                 Min(observed.burst,
                     (observed.left + SinceDenial * observed.rate_per_minute) \div Token)
          /\ SinceDenial * observed.rate_per_minute = Token => observed.granted = 1]_vars

C14_Witness ==
    /\ observed.allowed
    /\ observed.denied_at # -1
    /\ observed.resumed_at = clock
    /\ observed.left > 0
    /\ observed.granted >
           ((observed.resumed_at - observed.denied_at) * observed.rate_per_minute) \div Token

\* C15: no bucket of either limiter ever holds more tokens than its burst,
\* however long its key was idle.
C15_TokensAtMostBurst ==
    /\ \A client_id \in DOMAIN rate_limits : \A endpoint \in DOMAIN rate_limits[client_id] :
          rate_limits[client_id][endpoint].tokens <= BurstOf(endpoint) * Token
    /\ \A client_id \in DOMAIN middleware_limits :
          middleware_limits[client_id].tokens <= RATE_LIMIT_BURST * Token

\* an exhausted bucket was left idle for over an hour and then checked
C15_Witness ==
    /\ observed.allowed
    /\ observed.denied_at # -1
    /\ observed.resumed_at = clock
    /\ observed.resumed_at - observed.denied_at > cleanup_interval * TicksPerSecond
    /\ observed.granted = 1
    /\ Checked.tokens = (observed.burst - 1) * Token

\* a check follows a denial, with no other check in between, a whole number
\* of seconds later
ChecksAfterDenial ==
    /\ ~observed.allowed
    /\ observed.denied_at < clock
    /\ SinceDenial % TicksPerSecond = 0
    /\ observed' # observed

\* C17: a denial carries retry_after = ceil(60 - (now - last_refill)), and
\* that is the least whole number of seconds after which a token is there:
\* the next check of the key is allowed if it comes retry_after seconds
\* after the denial and denied if it comes a smaller whole number of seconds
\* after it.
C17_RetryAfterIsTimeToNextToken ==
    /\ [](~observed.allowed =>
             observed.retry_after =
                 ceil(60 * TicksPerSecond - (observed.at - Checked.last_update)))
    /\ [][ChecksAfterDenial =>
             /\ SinceDenial \div TicksPerSecond = observed.hint => observed'.allowed
             /\ SinceDenial \div TicksPerSecond < observed.hint => ~observed'.allowed]_vars

\* a check of the endpoint limiter is served and denied
DeniedCheck ==
    /\ observed' # observed
    /\ observed'.limiter = "endpoint"
    /\ ~observed'.allowed

\* the bucket of the last check of the endpoint limiter is in the map
Held ==
    /\ observed.limiter = "endpoint"
    /\ observed.client_id \in DOMAIN rate_limits
    /\ observed.endpoint \in DOMAIN rate_limits[observed.client_id]

\* the tokens a bucket holds at time t once refilled, the cap aside, in units
Accrued(bucket, rate_per_minute, t) ==
    bucket.tokens + (t - bucket.last_update) * rate_per_minute

\* C22: a denied check leaves the bucket with last_update at the time of the
\* check and with min(burst, tokens + elapsed * rate_per_minute / 60) tokens,
\* nothing consumed; so what accrued before a denial is kept, and a check is
\* allowed exactly when what accrued since the bucket was last written
\* reaches one token.
C22_DeniedCheckRefills ==
    /\ [][DeniedCheck =>
             /\ Checked'.last_update = clock
             /\ Checked'.tokens =
                    Min(observed'.burst * Token, Accrued(Checked, observed'.rate_per_minute, clock))
             /\ Accrued(Checked', observed'.rate_per_minute, clock)
                    = Accrued(Checked, observed'.rate_per_minute, clock)]_vars
    /\ [][(observed' # observed /\ observed'.limiter = "endpoint" /\ Held)
             => (observed'.allowed
                    <=> Accrued(Checked, observed'.rate_per_minute, clock) >= Token)]_vars

\* a denied check has stamped the bucket and left it a fraction of a token
\* larger than the fraction the denial before it had left
C22_Witness ==
    /\ observed.limiter = "endpoint"
    /\ ~observed.allowed
    /\ observed.denied_at > 0
    /\ Checked.last_update = observed.denied_at
    /\ Checked.tokens > observed.rate_per_minute * Slack
    /\ Checked.tokens < Token

\* ------------------------------------------- rate limiting: several keys
\* Both limiters with two keys in use and the clock around the cleanup
\* interval.  Beside EndpointRateLimiter.rate_limits the state keeps
\* uncleaned, the map of a limiter that is given the same checks and never
\* removes a bucket.

\* the requests of one host that is not logged in: with no token, and with a
\* bearer string that is no token the server issued
Senders ==
    { [host |-> "10.0.0.1", cookie |-> "", bearer |-> "", path |-> "/api/prompts"],
      [host |-> "10.0.0.1", cookie |-> "", bearer |-> "not-a-token", path |-> "/api/prompts"] }

\* the cleanup interval, in ticks
Horizon == cleanup_interval * TicksPerSecond

\* the instants the clock visits: the start, one cleanup interval later,
\* and the ticks after each, fewer than Slack
SweepMoments == UNION {w..(w + Slack - 1) : w \in {0, Horizon}}

\* the keys a behaviour uses: one sender's requests to two endpoint classes,
\* both senders' requests to one endpoint class, or both senders' requests
\* through the middleware
Pairs ==
    {[limiter |-> "endpoint", keys |-> {pair[1], pair[2]}] :
        pair \in {pair \in (Senders \X EndpointClasses) \X (Senders \X EndpointClasses) :
                     pair[1][1] = pair[2][1] \/ pair[1][2] = pair[2][2]}}
    \cup {[limiter |-> "middleware", keys |-> {<<one, GlobalClass>>, <<other, GlobalClass>>}] :
            one \in Senders, other \in Senders}

\* the record of a check among several keys: the outcome, the outcome of the
\* limiter that never cleans up, whether the check made anew a bucket that a
\* sweep had removed, and count, the checks allowed to the host for the
\* endpoint since the clock last moved, this one included, counted up to
\* one over the burst
Sighted(limiter, request, client_id, class, allowed, allowed_uncleaned) ==
    [limiter |-> limiter, host |-> request.host, client_id |-> client_id,
     endpoint |-> class.endpoint, rate_per_minute |-> class.rate_per_minute,
     burst |-> class.burst, allowed |-> allowed, allowed_uncleaned |-> allowed_uncleaned,
     recreated |-> /\ limiter = "endpoint"
                   /\ <<client_id, class.endpoint>> \notin BucketsOf(rate_limits, EmptyMap)
                   /\ <<client_id, class.endpoint>> \in BucketsOf(uncleaned, EmptyMap),
     count |-> Min(class.burst + 1,
                   (IF allowed THEN 1 ELSE 0)
                   + (IF /\ observed.limiter = limiter
                         /\ observed.host = request.host
                         /\ observed.endpoint = class.endpoint
                      THEN observed.count ELSE 0))]

NoSighting ==
    [limiter |-> "-", host |-> "-", client_id |-> <<>>, endpoint |-> "-", rate_per_minute |-> 0,
     burst |-> 0, allowed |-> TRUE, allowed_uncleaned |-> TRUE, recreated |-> FALSE, count |-> 0]

SweepInit ==
    /\ clock = 0
    /\ rate_limits = EmptyMap
    /\ middleware_limits = EmptyMap
    /\ last_cleanup = 0
    /\ observed = NoSighting
    /\ subject \in {pair \in Pairs : Cardinality(pair.keys) = 2}
    /\ uncleaned = EmptyMap
    /\ threads = EmptyMap
    /\ AuthAtRest
    /\ FlightAtRest
    /\ PromptsAtRest

\* a request passes a dependency function of the endpoint limiter; the
\* limiter that never cleans up is the same check_rate_limit whose
\* last_cleanup is always the present
Arrive(request, class) ==
    LET r == check_rate_limit(rate_limits, last_cleanup, request, class.endpoint,
                              class.rate_per_minute, class.burst, clock, 0)
        u == check_rate_limit(uncleaned, clock, request, class.endpoint,
                              class.rate_per_minute, class.burst, clock, 0)
    IN  /\ subject.limiter = "endpoint"
        /\ rate_limits' = r.rate_limits
        /\ last_cleanup' = r.last_cleanup
        /\ uncleaned' = u.rate_limits
        /\ observed' = Sighted("endpoint", request, endpoint_client_identifier(request), class,
                               r.status = HTTP_200_OK, u.status = HTTP_200_OK)
        /\ UNCHANGED <<clock, middleware_limits, subject, threads, notlimit>>

\* a request passes the middleware
Pass(request) ==
    LET r == dispatch(middleware_limits, request, clock, 0, 0)
    IN  /\ subject.limiter = "middleware"
        /\ middleware_limits' = r.rate_limits
        /\ observed' = Sighted("middleware", request, middleware_client_identifier(request),
                               GlobalClass, r.status = HTTP_200_OK, r.status = HTTP_200_OK)
        /\ UNCHANGED <<clock, rate_limits, last_cleanup, uncleaned, subject, threads, notlimit>>

\* time passes with no request
Pause(d) ==
    /\ d > 0
    /\ clock + d \in SweepMoments
    /\ clock' = clock + d
    /\ observed' = [observed EXCEPT !.count = 0]
    /\ UNCHANGED <<rate_limits, middleware_limits, last_cleanup, subject, uncleaned, threads,
                   notlimit>>

SweepNext ==
    \/ \E request \in Senders, class \in EndpointClasses :
          <<request, class>> \in subject.keys /\ Arrive(request, class)
    \/ \E request \in Senders :
          <<request, GlobalClass>> \in subject.keys /\ Pass(request)
    \/ \E to \in SweepMoments : Pause(to - clock)

SweepSpec == SweepInit /\ [][SweepNext]_vars

\* ------------------------------ rate limiting: properties of several keys
\* the step runs the sweep of the endpoint limiter
Swept == last_cleanup' # last_cleanup

\* the buckets of a map of the endpoint limiter, as <<client_id, endpoint>>
Keys(limits) == BucketsOf(limits, EmptyMap)

\* C23: a sweep of the endpoint limiter removes the buckets last written
\* more than 3600 s before it and no other, never the bucket of the request
\* served, and leaves the others as they were; after it no bucket is older
\* than that and no client has an empty endpoint map.
C23_SweepRemovesExactlyStale ==
    [][Swept =>
          LET served == <<observed'.client_id, observed'.endpoint>>
              stale == {key \in Keys(rate_limits) \ {served} :
                           rate_limits[key[1]][key[2]].last_update < clock - 3600 * TicksPerSecond}
          IN  /\ Keys(rate_limits') = (Keys(rate_limits) \ stale) \cup {served}
              /\ \A key \in Keys(rate_limits') \ {served} :
                     rate_limits'[key[1]][key[2]] = rate_limits[key[1]][key[2]]
              /\ \A key \in Keys(rate_limits') :
                     rate_limits'[key[1]][key[2]].last_update >= clock - 3600 * TicksPerSecond
              /\ \A client_id \in DOMAIN rate_limits' : DOMAIN rate_limits'[client_id] # {}]_vars

\* a sweep has just removed the other bucket of the client it served
C23_Witness ==
    /\ last_cleanup = clock
    /\ clock > 0
    /\ observed.limiter = "endpoint"
    /\ \E key \in Keys(uncleaned) \ Keys(rate_limits) : key[1] = observed.client_id

\* rate_per_minute of an endpoint class
RateOf(endpoint) == (CHOOSE class \in EndpointClasses : class.endpoint = endpoint).rate_per_minute

\* C29: with the limits of ai_operation, heavy_compute and strict, every
\* check of the endpoint limiter has the outcome it has from a limiter that
\* is given the same checks at the same times and never removes a bucket; a
\* bucket that a sweep removes would have refilled to its burst, which is
\* what the bucket made anew holds.
C29_CleanupKeepsDecisions ==
    /\ [](observed.limiter = "endpoint" => (observed.allowed <=> observed.allowed_uncleaned))
    /\ [][\A key \in Keys(rate_limits) \ Keys(rate_limits') :
             Accrued(rate_limits[key[1]][key[2]], RateOf(key[2]), clock)
                 >= BurstOf(key[2]) * Token]_vars
    /\ [](\A key \in Keys(rate_limits) :
             rate_limits[key[1]][key[2]] = uncleaned[key[1]][key[2]])

\* a check was made on a key whose bucket a sweep had removed
C29_Witness ==
    /\ observed.limiter = "endpoint"
    /\ observed.recreated
    /\ observed.allowed
    /\ observed.allowed_uncleaned
    /\ Keys(uncleaned) = Keys(rate_limits)

\* C24: once more than cleanup_interval has passed since the last cleanup of
\* RateLimitMiddleware (its construction, at the start), a rate-limited
\* request that the middleware processes leaves no entry whose last_update
\* is more than one hour old.
C24_MiddlewareCleanupRuns ==
    [][(middleware_limits' # middleware_limits /\ clock - 0 > cleanup_interval * TicksPerSecond)
          => \A client_id \in DOMAIN middleware_limits' :
                middleware_limits'[client_id].last_update >= clock - 3600 * TicksPerSecond]_vars

\* C25: the requests of a host that is not logged in share one bucket per
\* endpoint class whatever token they carry, so within one instant (T = 0)
\* the host is allowed at most burst requests of a class.
C25_UnauthenticatedShareIpBucket == observed.count <= observed.burst

\* ----------------------------------------- rate limiting: concurrent checks
\* The dependency functions are plain functions, so FastAPI runs each
\* request's check_rate_limit on a thread of its pool, and the threads share
\* the module's rate_limiter; the interpreter can switch threads between any
\* two accesses to the shared dict.  RateLimitMiddleware.dispatch is a
\* coroutine that does not await between its refill and its consume, so the
\* event loop runs that part of one request without another in between.
\*
\* Each thread serves one request for the subject's bucket, which holds one
\* token when the requests arrive; the clock stands still meanwhile.

Threads == 1..MaxThreads

\* a request that has not reached the limiter yet
Arriving == [pc |-> "arriving", current_time |-> 0, time_elapsed |-> 0, tokens |-> 0, status |-> 0]

OneTokenLeft == Bucket(Token, 0)

ThreadedInit ==
    /\ clock = 0
    /\ subject \in {s \in Subjects : s.request.path # "/health"}
    /\ rate_limits =
           IF subject.limiter = "endpoint"
           THEN Put(EmptyMap, endpoint_client_identifier(subject.request),
                    Put(EmptyMap, subject.class.endpoint, OneTokenLeft))
           ELSE EmptyMap
    /\ middleware_limits =
           IF subject.limiter = "middleware"
           THEN Put(EmptyMap, middleware_client_identifier(subject.request), OneTokenLeft)
           ELSE EmptyMap
    /\ last_cleanup = 0
    /\ observed = NoCheck
    /\ uncleaned = EmptyMap
    /\ threads = [th \in Threads |-> Arriving]
    /\ AuthAtRest
    /\ FlightAtRest
    /\ PromptsAtRest

\* the bucket of the subject in the endpoint limiter
Shared == rate_limits[endpoint_client_identifier(subject.request)][subject.class.endpoint]

\* self.rate_limits[client_id][endpoint][field] = value
Store(field, value) ==
    LET client_id == endpoint_client_identifier(subject.request)
        bucket == [Shared EXCEPT ![field] = value]
    IN  rate_limits' = Put(rate_limits, client_id,
                           Put(rate_limits[client_id], subject.class.endpoint, bucket))

\* the thread moves on with new locals
Goes(th, locals) == threads' = [threads EXCEPT ![th] = locals]

\* _refill_tokens up to time_elapsed: read the clock, find the bucket, read
\* its last_update
Enter(th) ==
    /\ subject.limiter = "endpoint"
    /\ threads[th].pc = "arriving"
    /\ Goes(th, [threads[th] EXCEPT !.pc = "refill", !.current_time = clock,
                                    !.time_elapsed = clock - Shared.last_update])
    /\ UNCHANGED <<clock, rate_limits, middleware_limits, last_cleanup, observed, subject, uncleaned, notlimit>>

\* client_data["tokens"] + tokens_to_add: the arguments of min are evaluated
RefillRead(th) ==
    /\ threads[th].pc = "refill"
    /\ Goes(th, [threads[th] EXCEPT !.pc = "min", !.tokens = Shared.tokens])
    /\ UNCHANGED <<clock, rate_limits, middleware_limits, last_cleanup, observed, subject, uncleaned, notlimit>>

\* client_data["tokens"] = min(...): the result is stored
RefillWrite(th) ==
    /\ threads[th].pc = "min"
    /\ Store("tokens", refill(subject.class.burst, threads[th].tokens,
                              tokens_to_add(threads[th].time_elapsed, subject.class.rate_per_minute)))
    /\ Goes(th, [threads[th] EXCEPT !.pc = "stamp"])
    /\ UNCHANGED <<clock, middleware_limits, last_cleanup, observed, subject, uncleaned, notlimit>>

\* client_data["last_update"] = current_time
Stamp(th) ==
    /\ threads[th].pc = "stamp"
    /\ Store("last_update", threads[th].current_time)
    /\ Goes(th, [threads[th] EXCEPT !.pc = "test"])
    /\ UNCHANGED <<clock, middleware_limits, last_cleanup, observed, subject, uncleaned, notlimit>>

\* if self.rate_limits[client_id][endpoint]["tokens"] >= 1, else the 429
Test(th) ==
    /\ threads[th].pc = "test"
    /\ Goes(th, IF Shared.tokens >= Token
                THEN [threads[th] EXCEPT !.pc = "take"]
                ELSE [threads[th] EXCEPT !.pc = "done", !.status = HTTP_429_TOO_MANY_REQUESTS])
    /\ UNCHANGED <<clock, rate_limits, middleware_limits, last_cleanup, observed, subject, uncleaned, notlimit>>

\* ["tokens"] -= 1: the old value is read
TakeRead(th) ==
    /\ threads[th].pc = "take"
    /\ Goes(th, [threads[th] EXCEPT !.pc = "store", !.tokens = Shared.tokens])
    /\ UNCHANGED <<clock, rate_limits, middleware_limits, last_cleanup, observed, subject, uncleaned, notlimit>>

\* ["tokens"] -= 1: the new value is stored; the sweep finds nothing due and
\* the request goes on to its handler
TakeWrite(th) ==
    /\ threads[th].pc = "store"
    /\ Store("tokens", threads[th].tokens - Token)
    /\ Goes(th, [threads[th] EXCEPT !.pc = "done", !.status = HTTP_200_OK])
    /\ UNCHANGED <<clock, middleware_limits, last_cleanup, observed, subject, uncleaned, notlimit>>

\* RateLimitMiddleware.dispatch up to its first await, in one piece
Serve(th) ==
    LET r == dispatch(middleware_limits, subject.request, clock, 0, 0)
    IN  /\ subject.limiter = "middleware"
        /\ threads[th].pc = "arriving"
        /\ middleware_limits' = r.rate_limits
        /\ Goes(th, [threads[th] EXCEPT !.pc = "done", !.status = r.status])
        /\ UNCHANGED <<clock, rate_limits, last_cleanup, observed, subject, uncleaned, notlimit>>

ThreadedNext ==
    \E th \in Threads :
        \/ Enter(th)
        \/ RefillRead(th)
        \/ RefillWrite(th)
        \/ Stamp(th)
        \/ Test(th)
        \/ TakeRead(th)
        \/ TakeWrite(th)
        \/ Serve(th)

ThreadedSpec == ThreadedInit /\ [][ThreadedNext]_vars

\* the requests let through
Allowed == {th \in DOMAIN threads : threads[th].status = HTTP_200_OK}

\* the subject's bucket, whichever limiter holds it
SubjectBucket ==
    IF subject.limiter = "endpoint" THEN Shared
    ELSE middleware_limits[middleware_client_identifier(subject.request)]

\* C16: concurrent checks of one key take effect one after the other: with
\* one token in the bucket and no time passing, never more than one request
\* is allowed, and once all have been answered exactly one was allowed and
\* the bucket holds what the allowed request left.
C16_ConcurrentChecksAtomic ==
    /\ Cardinality(Allowed) * Token <= OneTokenLeft.tokens
    /\ (\A th \in DOMAIN threads : threads[th].pc = "done") =>
          /\ Cardinality(Allowed) * Token = OneTokenLeft.tokens
          /\ SubjectBucket.tokens = 0

\* ------------------------------- rate limiting: token counts, checks in turn
\* the subject's bucket is in its map
Kept == BucketsOf(rate_limits, middleware_limits) # {}

\* the tokens of the subject's bucket once refilled at the present, in units
Refilled ==
    Min(subject.class.burst * Token, Accrued(SubjectBucket, subject.class.rate_per_minute, clock))

\* no bucket holds less than no token
NonNegative ==
    /\ \A client_id \in DOMAIN rate_limits : \A endpoint \in DOMAIN rate_limits[client_id] :
          rate_limits[client_id][endpoint].tokens >= 0
    /\ \A client_id \in DOMAIN middleware_limits : middleware_limits[client_id].tokens >= 0

\* a step that writes a bucket that was there leaves it refilled, or
\* refilled and one token less where the refill gave a whole token
TakesWholeTokens ==
    (Kept /\ Kept' /\ SubjectBucket' # SubjectBucket) =>
        /\ Refilled >= SubjectBucket.tokens
        /\ \/ SubjectBucket'.tokens = Refilled
           \/ SubjectBucket'.tokens = Refilled - Token /\ Refilled >= Token

Refreshers == 1..MaxThreads
Ender == 0

NoRow == RefreshToken(0, 0, hash_token(NoToken), -1)

\* a request at the door of its handler
Incoming(op, auth, token) ==
    [op |-> op, pc |-> "start", auth |-> auth, token |-> token, found |-> 0,
     loaded |-> NoRow, dirty |-> {}, resp |-> Fail(0, "")]

\* a query that also sees what other sessions have not committed
session_view_dirty(rows, request) ==
    [i \in DOMAIN rows |->
        IF \E id \in DOMAIN inflight : i \in inflight[id].dirty
        THEN [rows[i] EXCEPT !.revoked = TRUE] ELSE rows[i]]

\* db.query(RefreshToken) in the session of a request: the committed rows,
\* with the session's own pending db_token.revoked = True
session_view(rows, request) ==
    [i \in DOMAIN rows |->
        IF i \in request.dirty THEN [rows[i] EXCEPT !.revoked = TRUE] ELSE rows[i]]

\* a commit that loses the session's writes
commit_nothing(rows, request) == rows

\* db.commit()
commit(rows, request) ==
    [i \in DOMAIN rows |->
        IF i \in request.dirty THEN [rows[i] EXCEPT !.revoked = TRUE] ELSE rows[i]]

RaceInit ==
    /\ \E user \in Users :
          LET r == login(user.username, user.hashed_password[2], <<>>, 0)
          IN  /\ now = 0
              /\ refresh_tokens = r.rows
              /\ issued = r.tokens
              /\ last = Request("login", user.username, user.hashed_password[2],
                                NoToken, NoToken, [r EXCEPT !.rows = <<>>])
              /\ \E op \in {"revoke", "logout"} :
                    inflight = [id \in {Ender} \cup Refreshers |->
                                   IF id = Ender
                                   THEN Incoming(op, r.resp.access_token, r.resp.refresh_token)
                                   ELSE Incoming("refresh", NoToken, r.resp.refresh_token)]
    /\ users = <<>>
    /\ call = NoCall
    /\ LimiterAtRest
    /\ PromptsAtRest

Proceeds(id, request) == inflight' = [inflight EXCEPT ![id] = request]

\* a refresh whose query takes the record of the token, revoked or not
refresh_lookup_any_record(request, rows, t) ==
    LET early == refresh_access_token(request.token, <<>>, t)
        payload == decode_refresh_token(request.token, t)
        i == first(RowsOf(rows, request.token))
    IN  IF request.token = NoToken \/ payload = NoPayload \/ payload.sub = "-"
        THEN [request EXCEPT !.pc = "done", !.resp = early.resp]
        ELSE IF i = 0
        THEN [request EXCEPT !.pc = "done",
                             !.resp = Fail(HTTP_401_UNAUTHORIZED, "Refresh token revoked or invalid")]
        ELSE [request EXCEPT !.pc = "found", !.found = i, !.loaded = rows[i]]
\* POST /refresh up to its query of refresh_tokens (auth.py:163-202)
refresh_lookup(request, rows, t) ==
    LET early == refresh_access_token(request.token, <<>>, t)
        payload == decode_refresh_token(request.token, t)
        i == find_active(session_view(rows, request), hash_token(request.token))
    IN  IF request.token = NoToken \/ payload = NoPayload \/ payload.sub = "-"
        THEN [request EXCEPT !.pc = "done", !.resp = early.resp]
        ELSE IF i = 0
        THEN [request EXCEPT !.pc = "done",
                             !.resp = Fail(HTTP_401_UNAUTHORIZED, "Refresh token revoked or invalid")]
        ELSE [request EXCEPT !.pc = "found", !.found = i, !.loaded = rows[i]]

RefreshLookup(id) ==
    /\ inflight[id].op = "refresh"
    /\ inflight[id].pc = "start"
    /\ Proceeds(id, refresh_lookup(inflight[id], refresh_tokens, now))
    /\ UNCHANGED <<authvars, users, call, limitvars, promptvars>>

\* POST /refresh from the expiry check on (auth.py:204-242), on the record
\* the session has loaded
RefreshFinish(id) ==
    LET request == inflight[id]
        user == UserByName(decode_refresh_token(request.token, now).sub)
    IN  /\ request.op = "refresh"
        /\ request.pc = "found"
        /\ IF request.loaded.expires_at < now
           THEN /\ refresh_tokens' = commit(refresh_tokens, [request EXCEPT !.dirty = {request.found}])
                /\ Proceeds(id, [request EXCEPT !.pc = "done",
                                    !.resp = Fail(HTTP_401_UNAUTHORIZED, "Refresh token expired")])
                /\ UNCHANGED issued
           ELSE IF user = NoUser \/ ~user.is_active
           THEN /\ Proceeds(id, [request EXCEPT !.pc = "done",
                                    !.resp = Fail(HTTP_401_UNAUTHORIZED, "User not found or inactive")])
                /\ UNCHANGED <<refresh_tokens, issued>>
           ELSE LET r == refresh_issue(refresh_tokens, request.found, user, now)
                IN  /\ Proceeds(id, [request EXCEPT !.pc = "done", !.resp = r.resp])
                    /\ refresh_tokens' = r.rows
                    /\ issued' = receive(issued, r.tokens)
        /\ UNCHANGED <<now, last, users, call, limitvars, promptvars>>

\* POST /revoke (auth.py:259-277) or POST /logout (auth.py:115-121) up to
\* its query of refresh_tokens
ender_lookup(request, rows, t) ==
    LET view == session_view(rows, request)
        whole == IF request.op = "revoke"
                 THEN revoke_refresh_token(request.auth, request.token, view, t)
                 ELSE logout(request.token, view)
        current == get_current_active_user(request.auth, t)
        i == IF request.op = "revoke"
             THEN IF current.user = NoUser THEN 0
                  ELSE find_owned(view, hash_token(request.token), current.user.id)
             ELSE find_active(view, hash_token(request.token))
    IN  IF request.token = NoToken \/ i = 0
        THEN [request EXCEPT !.pc = "done", !.resp = whole.resp]
        ELSE [request EXCEPT !.pc = "found", !.found = i, !.loaded = rows[i]]

EnderLookup(id) ==
    /\ inflight[id].op \in {"revoke", "logout"}
    /\ inflight[id].pc = "start"
    /\ Proceeds(id, ender_lookup(inflight[id], refresh_tokens, now))
    /\ UNCHANGED <<authvars, users, call, limitvars, promptvars>>

\* db_token.revoked = True: a write pending in the session
EnderMark(id) ==
    /\ inflight[id].op \in {"revoke", "logout"}
    /\ inflight[id].pc = "found"
    /\ Proceeds(id, [inflight[id] EXCEPT !.pc = "marked", !.dirty = {inflight[id].found}])
    /\ UNCHANGED <<authvars, users, call, limitvars, promptvars>>

\* db.commit()
EnderCommit(id) ==
    /\ inflight[id].pc = "marked"
    /\ refresh_tokens' = commit(refresh_tokens, inflight[id])
    /\ Proceeds(id, [inflight[id] EXCEPT !.pc = "committed", !.dirty = {}])
    /\ UNCHANGED <<now, issued, last, users, call, limitvars, promptvars>>

\* the response of the request that ended the token
EnderRespond(id) ==
    /\ inflight[id].pc = "committed"
    /\ Proceeds(id, [inflight[id] EXCEPT !.pc = "done",
                        !.resp = IF inflight[id].op = "revoke"
                                 THEN Fail(HTTP_200_OK, "Refresh token revoked successfully")
                                 ELSE Fail(HTTP_200_OK, "Successfully logged out")])
    /\ UNCHANGED <<authvars, users, call, limitvars, promptvars>>

RaceNext ==
    \E id \in {Ender} \cup Refreshers :
        \/ RefreshLookup(id)
        \/ RefreshFinish(id)
        \/ EnderLookup(id)
        \/ EnderMark(id)
        \/ EnderCommit(id)
        \/ EnderRespond(id)

RaceSpec == RaceInit /\ [][RaceNext]_vars

\* the record of the token the requests are about
Contested == first(RowsOf(refresh_tokens, inflight[Ender].token))

\* a refresh request passes its query
Looks(id) == inflight[id].op = "refresh" /\ inflight[id].pc = "start" /\ inflight'[id].pc # "start"

\* C18: a refresh racing with a revoke or logout of its token finds the
\* record either as committed before the revoke, active and whole, or as
\* committed after it, not found; it ends in exactly one of an access token
\* and a 401; and when all requests are answered the record is revoked.
C18_RevokeRacesRefresh ==
    /\ [][\A id \in DOMAIN inflight : Looks(id) =>
            \/ /\ ~refresh_tokens[Contested].revoked
               /\ inflight'[id].pc = "found"
               /\ inflight'[id].loaded = refresh_tokens[Contested]
            \/ /\ refresh_tokens[Contested].revoked
               /\ inflight'[id].pc = "done"
               /\ inflight'[id].resp =
                      Fail(HTTP_401_UNAUTHORIZED, "Refresh token revoked or invalid")]_vars
    /\ [](\A id \in DOMAIN inflight : (inflight[id].op = "refresh" /\ inflight[id].pc = "done") =>
            \/ inflight[id].resp.status = HTTP_200_OK /\ inflight[id].resp.access_token \in issued
            \/ /\ inflight[id].resp.status = HTTP_401_UNAUTHORIZED
               /\ inflight[id].resp.access_token = NoToken)
    /\ []((\A id \in DOMAIN inflight : inflight[id].pc = "done") =>
            refresh_tokens[Contested].revoked)

\* the refresh won the race: it got its access token, and the record is
\* revoked
C18_Witness ==
    /\ inflight # EmptyMap
    /\ \A id \in DOMAIN inflight : inflight[id].pc = "done"
    /\ \E id \in DOMAIN inflight :
          inflight[id].op = "refresh" /\ inflight[id].resp.status = HTTP_200_OK
    /\ inflight[Ender].resp.status = HTTP_200_OK
    /\ refresh_tokens[Contested].revoked

\* the revoke or logout has been answered with success and the record is
\* committed as revoked
EnderSucceeded ==
    /\ inflight[Ender].pc = "done"
    /\ inflight[Ender].resp.status = HTTP_200_OK
    /\ refresh_tokens[Contested].revoked

\* a refresh request is answered in this step
Answered(id) ==
    /\ inflight[id].op = "refresh"
    /\ inflight[id].pc # "done"
    /\ inflight'[id].pc = "done"

\* C27 as stated: once the revoke or logout of a refresh token has been
\* answered with success, no refresh with that token is answered with an
\* access token, not even one that had passed its query before the commit.
C27_NoRefreshAfterRevokeCompleted ==
    [][EnderSucceeded =>
          \A id \in Refreshers : Answered(id) => inflight'[id].resp.status # HTTP_200_OK]_vars

\* C27, amended: a refresh that makes its query once the revoke or logout
\* has committed is rejected with 401; a refresh answered with an access
\* token after the revoke was answered is one that had passed its query
\* before the commit and holds the record as it was then, active.
C27_RefreshAfterCommitRejected ==
    /\ [][\A id \in Refreshers :
            (Looks(id) /\ refresh_tokens[Contested].revoked) =>
                /\ inflight'[id].pc = "done"
                /\ inflight'[id].resp.status = HTTP_401_UNAUTHORIZED
                /\ issued' = issued]_vars
    /\ [][EnderSucceeded =>
            \A id \in Refreshers :
                (Answered(id) /\ inflight'[id].resp.status = HTTP_200_OK) =>
                    /\ inflight[id].pc = "found"
                    /\ ~inflight[id].loaded.revoked]_vars

\* after the revoke was answered, one refresh was rejected at its query and
\* another, which had passed its query before, was answered with a token
C27_Witness ==
    /\ inflight # EmptyMap
    /\ EnderSucceeded
    /\ \E id \in Refreshers :
          /\ inflight[id].pc = "done"
          /\ inflight[id].resp = Fail(HTTP_401_UNAUTHORIZED, "Refresh token revoked or invalid")
    /\ \E id \in Refreshers :
          /\ inflight[id].pc = "done"
          /\ inflight[id].resp.status = HTTP_200_OK

\* ================================================ validating an access token
\* decode_access_token (security.py:36-42) and get_current_user
\* (dependencies.py:38-70) as functions of the token presented and the time.

\* the tokens a client can present: any subject, an exp in the first seconds,
\* with or without the refresh type, signed by the server, signed by someone
\* else, or not a JWT at all ("invalid.token.here")
PresentedTokens ==
    [sub : Usernames \cup {"-"}, exp : 0..Slack, type : {"none", "refresh"},
     sig : {"ok", "bad", "malformed"}]

\* the times of the call, in ticks
CallTimes == 0..((Slack + 1) * TicksPerSecond)

Pending == [pending |-> TRUE]

DecodeInit ==
    /\ call \in [fn : {"decode_access_token"}, token : PresentedTokens, t : CallTimes,
                 returned : {Pending}]
               \cup [fn : {"get_current_user"}, token : PresentedTokens \cup {NoToken},
                     t : CallTimes, returned : {Pending}]
    /\ inflight = EmptyMap
    /\ users = <<>>
    /\ AuthAtRest
    /\ LimiterAtRest
    /\ PromptsAtRest

ApplyDecode ==
    /\ call.fn = "decode_access_token"
    /\ call.returned = Pending
    /\ call' = [call EXCEPT !.returned = decode_access_token(call.token, call.t)]
    /\ UNCHANGED <<authvars, limitvars, inflight, users, promptvars>>

ApplyCurrentUser ==
    /\ call.fn = "get_current_user"
    /\ call.returned = Pending
    /\ call' = [call EXCEPT !.returned = get_current_user(call.token, call.t)]
    /\ UNCHANGED <<authvars, limitvars, inflight, users, promptvars>>

DecodeNext == ApplyDecode \/ ApplyCurrentUser

DecodeSpec == DecodeInit /\ [][DecodeNext]_vars

Returned(fn) == call.fn = fn /\ call.returned # Pending

ClaimsOf(token) == [sub |-> token.sub, exp |-> token.exp, type |-> token.type]

CredentialsException ==
    [user |-> NoUser, resp |-> Fail(HTTP_401_UNAUTHORIZED, "Could not validate credentials")]

\* get_current_user answers the four failures alike, and any other token
\* with its user
UniformFailure ==
    Returned("get_current_user") =>
        IF \/ call.token = NoToken
           \/ decode_access_token(call.token, call.t) = NoPayload
           \/ call.token.sub = "-"
           \/ UserByName(call.token.sub) = NoUser
        THEN call.returned = CredentialsException
        ELSE /\ call.returned.user = UserByName(call.token.sub)
             /\ call.returned.resp.status = HTTP_200_OK

\* C19 as stated: decode_access_token returns the claims exactly for a
\* token with the server's signature whose exp lies in the future, and None
\* otherwise; get_current_user answers a missing token, an invalid token, a
\* token without subject and a token of an unknown user with the same 401.
C19_DecodesOnlyBeforeExp ==
    /\ Returned("decode_access_token") =>
          IF call.token.sig = "ok" /\ call.token.exp * TicksPerSecond > call.t
          THEN call.returned = ClaimsOf(call.token)
          ELSE call.returned = NoPayload
    /\ UniformFailure

\* C19, amended: decode_access_token returns the claims exactly for a token
\* with the server's signature while the time is before exp + 1 second (the
\* time is compared in whole seconds, so the token outlives exp by up to a
\* second), and None otherwise; get_current_user answers the four failures
\* with the same 401.
C19_DecodesUntilSecondAfterExp ==
    /\ Returned("decode_access_token") =>
          IF call.token.sig = "ok" /\ call.t < (call.token.exp + 1) * TicksPerSecond
          THEN call.returned = ClaimsOf(call.token)
          ELSE call.returned = NoPayload
    /\ UniformFailure

\* a token is decoded after its exp has passed
C19_Witness ==
    /\ Returned("decode_access_token")
    /\ call.token.exp * TicksPerSecond < call.t
    /\ call.returned = ClaimsOf(call.token)

\* ============================================================= registration
\* POST /register (auth.py:29-32) and AuthService.create_user
\* (auth_service.py:16-65), each request on a thread and a session of its
\* own; table users has the unique indexes ix_users_email and
\* ix_users_username (alembic/versions/5289f4272a78_initial_migration.py).

\* the bodies of the registration requests that pass UserCreate
\* (schemas/user.py:6-23: an EmailStr and a password of 6 characters or more);
\* "o'neil@example.com" is an EmailStr the pattern of validate_email rejects,
\* "Sh0rt!7" has 7 characters
Registrations ==
    [username : {"alice", "<b>alice</b>", "bob"},
     email : {"alice@example.com", "bob@example.com"},
     password : {"Str0ng!Passw0rd"}]
    \cup { [username |-> "alice", email |-> "o'neil@example.com", password |-> "Str0ng!Passw0rd"],
           [username |-> "alice", email |-> "alice@example.com", password |-> "Sh0rt!7"] }

\* re.match(email_pattern, email)
validate_email(email) == email # "o'neil@example.com"

\* validate_password_strength: (is_valid, error_message)
validate_password_strength(password) ==
    IF password = "Sh0rt!7"
    THEN [is_valid |-> FALSE, error_message |-> "Password must be at least 8 characters long"]
    ELSE [is_valid |-> TRUE, error_message |-> ""]

\* bleach.clean(text, tags=[], strip=True): the text without its HTML tags
sanitize_input(text) == IF text = "<b>alice</b>" THEN "alice" ELSE text

User(id, email, username, hashed_password) ==
    [id |-> id, email |-> email, username |-> username, hashed_password |-> hashed_password,
     is_active |-> TRUE]

\* query(User).filter((email == ...) | (username == ...)).first()
existing_user(rows, email, username) ==
    first({i \in DOMAIN rows : rows[i].email = email \/ rows[i].username = username})

\* a table users without unique indexes
users_unique_unchecked(rows, email, username) == FALSE
\* the INSERT raises IntegrityError: ix_users_email or ix_users_username
users_unique_violated(rows, email, username) ==
    \E i \in DOMAIN rows : rows[i].email = email \/ rows[i].username = username

Registering(user_data) ==
    [op |-> "register", pc |-> "start", user_data |-> user_data, resp |-> Fail(0, "")]

RegisterInit ==
    /\ users = <<>>
    /\ inflight \in [Threads \cup {MaxThreads + 1} -> {Registering(user_data) : user_data \in Registrations}]
    /\ call = NoCall
    /\ AuthAtRest
    /\ LimiterAtRest
    /\ PromptsAtRest

\* create_user up to the check for an existing user (auth_service.py:18-51)
create_user_check(rows, request) ==
    LET user_data == request.user_data
        strength == validate_password_strength(user_data.password)
        sanitized_username == sanitize_input(user_data.username)
        sanitized_email == sanitize_input(user_data.email)
    IN  IF ~validate_email(user_data.email)
        THEN [request EXCEPT !.pc = "done",
                             !.resp = Fail(HTTP_400_BAD_REQUEST, "Invalid email format")]
        ELSE IF ~strength.is_valid
        THEN [request EXCEPT !.pc = "done",
                             !.resp = Fail(HTTP_400_BAD_REQUEST, strength.error_message)]
        ELSE IF existing_user(rows, sanitized_email, sanitized_username) # 0
        THEN [request EXCEPT !.pc = "done",
                             !.resp = Fail(HTTP_400_BAD_REQUEST, "Email or username already registered")]
        ELSE [request EXCEPT !.pc = "checked"]

CreateUserCheck(id) ==
    /\ inflight[id].op = "register"
    /\ inflight[id].pc = "start"
    /\ Proceeds(id, create_user_check(users, inflight[id]))
    /\ UNCHANGED <<users, call, authvars, limitvars, promptvars>>

\* db.add(db_user); db.commit() (auth_service.py:53-65): the row is inserted
\* and the response is 201, or the INSERT fails and the exception handler of
\* main.py answers 500
CreateUserCommit(id) ==
    LET user_data == inflight[id].user_data
        sanitized_username == sanitize_input(user_data.username)
        sanitized_email == sanitize_input(user_data.email)
        db_user == User(Len(users) + 1, sanitized_email, sanitized_username,
                        get_password_hash(user_data.password))
    IN  /\ inflight[id].op = "register"
        /\ inflight[id].pc = "checked"
        /\ IF users_unique_violated(users, sanitized_email, sanitized_username)
           THEN /\ Proceeds(id, [inflight[id] EXCEPT !.pc = "done",
                                    !.resp = Fail(HTTP_500_INTERNAL_SERVER_ERROR, "IntegrityError")])
                /\ UNCHANGED users
           ELSE /\ users' = Append(users, db_user)
                /\ Proceeds(id, [inflight[id] EXCEPT !.pc = "done",
                                    !.resp = Fail(HTTP_201_CREATED, "")])
        /\ UNCHANGED <<call, authvars, limitvars, promptvars>>

RegisterNext ==
    \E id \in Threads \cup {MaxThreads + 1} :
        \/ CreateUserCheck(id)
        \/ CreateUserCommit(id)

RegisterSpec == RegisterInit /\ [][RegisterNext]_vars

\* the requests that carry the same username and email as request id
SameAs(id) ==
    {other \in DOMAIN inflight :
        /\ inflight[other].user_data.username = inflight[id].user_data.username
        /\ inflight[other].user_data.email = inflight[id].user_data.email}

\* the requests for another username or email that is stored as the same
\* username or email as that of request id
Rivals(id) ==
    {other \in DOMAIN inflight \ SameAs(id) :
        \/ sanitize_input(inflight[other].user_data.username)
               = sanitize_input(inflight[id].user_data.username)
        \/ sanitize_input(inflight[other].user_data.email)
               = sanitize_input(inflight[id].user_data.email)}

Created(ids) == {id \in ids : inflight[id].resp.status = HTTP_201_CREATED}

\* C20: of the concurrent registrations with one username and email, never
\* more than one is answered 201, and once all are answered (none else
\* asking for that username or email) exactly one was and every other failed; no two rows of users share a username or an
\* email; and a registration that starts when its email or username is
\* already registered is answered 400.
C20_OneRegistrationWins ==
    /\ [](\A id \in DOMAIN inflight :
            /\ Cardinality(Created(SameAs(id))) <= 1
            /\ (/\ \A other \in SameAs(id) : inflight[other].pc = "done"
                /\ Rivals(id) = {}
                /\ validate_email(inflight[id].user_data.email)
                /\ validate_password_strength(inflight[id].user_data.password).is_valid)
               => /\ Cardinality(Created(SameAs(id))) = 1
                  /\ \A other \in SameAs(id) \ Created(SameAs(id)) :
                        inflight[other].resp.status
                            \in {HTTP_400_BAD_REQUEST, HTTP_500_INTERNAL_SERVER_ERROR})
    /\ [](\A i, j \in DOMAIN users :
            i # j => users[i].username # users[j].username /\ users[i].email # users[j].email)
    /\ [][\A id \in DOMAIN inflight :
            (/\ inflight[id].pc = "start"
             /\ inflight'[id].pc # "start"
             /\ \E i \in DOMAIN users :
                   \/ users[i].email = inflight[id].user_data.email
                   \/ users[i].username = inflight[id].user_data.username)
            => /\ inflight'[id].resp.status = HTTP_400_BAD_REQUEST
               /\ users' = users]_vars

\* two registrations with the same username and email both passed the check
\* for an existing user; one was created and the other failed on commit
C20_Witness ==
    \E id \in DOMAIN inflight : \E other \in SameAs(id) :
        /\ inflight[id].resp.status = HTTP_201_CREATED
        /\ inflight[other].resp.status = HTTP_500_INTERNAL_SERVER_ERROR
        /\ \A any \in SameAs(id) : inflight[any].pc = "done"

\* ===================================================== requests to Gemini
\* GeminiService._make_request_with_retry (services/gemini_service.py:35-67):
\* the for loop over range(self.max_retries), one step per call of the model
\* and per sleep.

\* the messages str(e) of the exceptions a call of the model raises, each
\* as its fragments
Messages ==
    { <<"400 ", "API_KEY", "_INVALID">>,
      <<"Authentication", " failed">>,
      <<"401 ", "authentication", " required">>,
      <<"api_key", " missing">>,
      <<"503 unavailable">>,
      <<"429 quota exceeded">> }

\* what self.model.generate_content(prompt) and response.text yield: the
\* text, or an exception
Replies ==
    {[ok |-> TRUE, text |-> "response", message |-> <<>>]}
        \cup {[ok |-> FALSE, text |-> "", message |-> message] : message \in Messages}

\* fragment in str
Contains(message, fragment) == \E i \in DOMAIN message : message[i] = fragment

\* str.lower()
lower(message) ==
    [i \in DOMAIN message |->
        IF message[i] = "Authentication" THEN "authentication"
        ELSE IF message[i] = "API_KEY" THEN "api_key"
        ELSE IF message[i] = "_INVALID" THEN "_invalid"
        ELSE message[i]]

\* a loop that retries after every exception
dont_retry_never(message) == FALSE
\* "API_KEY" in str(e) or "authentication" in str(e).lower()
dont_retry(message) ==
    Contains(message, "API_KEY") \/ Contains(lower(message), "authentication")

\* last_exception = None
None == <<"None">>

Returning(text) == [raised |-> FALSE, text |-> text, message |-> <<>>]
Raising(message) == [raised |-> TRUE, text |-> "", message |-> message]
\* Exception(f"Failed after {self.max_retries} attempts: {last_exception}")
FailedAfter(max_retries, last_exception) ==
    Raising(<<"Failed after ", max_retries, " attempts: ">> \o last_exception)

\* the call as it starts: attempt is the loop variable, replies what the
\* calls of the model yielded, slept the arguments of time.sleep
RetryInit ==
    /\ call \in [fn : {"_make_request_with_retry"}, max_retries : 0..MaxRetries,
                 pc : {"try"}, attempt : {0}, replies : {<<>>}, slept : {<<>>},
                 last_exception : {None}, returned : {Pending}]
    /\ inflight = EmptyMap
    /\ users = <<>>
    /\ AuthAtRest
    /\ LimiterAtRest
    /\ PromptsAtRest

\* one pass of the loop body up to its sleep (lines 51-62)
GenerateContent(reply) ==
    /\ call.fn = "_make_request_with_retry"
    /\ call.pc = "try"
    /\ call.attempt < call.max_retries
    /\ call' =
          LET called == [call EXCEPT !.replies = Append(call.replies, reply)]
          IN  IF reply.ok
              THEN [called EXCEPT !.pc = "done", !.returned = Returning(reply.text)]
              ELSE IF dont_retry(reply.message)
              THEN [called EXCEPT !.pc = "done", !.last_exception = reply.message,
                                  !.returned = Raising(reply.message)]
              ELSE IF call.attempt < call.max_retries - 1
              THEN [called EXCEPT !.pc = "sleep", !.last_exception = reply.message]
              ELSE [called EXCEPT !.attempt = call.attempt + 1,
                                  !.last_exception = reply.message]
    /\ UNCHANGED <<authvars, limitvars, inflight, users, promptvars>>

\* time.sleep(2 ** attempt) and the next pass (lines 63-64)
Sleep ==
    /\ call.fn = "_make_request_with_retry"
    /\ call.pc = "sleep"
    /\ call' = [call EXCEPT !.pc = "try", !.attempt = call.attempt + 1,
                            !.slept = Append(call.slept, 2 ^ call.attempt)]
    /\ UNCHANGED <<authvars, limitvars, inflight, users, promptvars>>

\* the loop is exhausted (line 67)
GiveUp ==
    /\ call.fn = "_make_request_with_retry"
    /\ call.pc = "try"
    /\ call.attempt >= call.max_retries
    /\ call' = [call EXCEPT !.pc = "done",
                            !.returned = FailedAfter(call.max_retries, call.last_exception)]
    /\ UNCHANGED <<authvars, limitvars, inflight, users, promptvars>>

RetryNext ==
    \/ \E reply \in Replies : GenerateContent(reply)
    \/ Sleep
    \/ GiveUp

\* the function runs on: a call of the model returns or raises, a sleep ends
RetrySpec == RetryInit /\ [][RetryNext]_vars /\ WF_vars(RetryNext)

\* the messages that name the API key, in capitals, or authentication
Unretried ==
    { <<"400 ", "API_KEY", "_INVALID">>,
      <<"Authentication", " failed">>,
      <<"401 ", "authentication", " required">> }

\* every reply, but for the final ones, was an exception that is retried
AllRetriedBut(final) ==
    \A i \in 1..(Len(call.replies) - final) :
        ~call.replies[i].ok /\ call.replies[i].message \notin Unretried

\* C26: _make_request_with_retry ends, after at most max_retries calls of the
\* model: with the first text a call yields, with the exception itself when
\* its message names the API key or authentication, and with a failure once
\* max_retries calls have raised others; between two calls it has slept
\* 2^attempt seconds, and it has not slept after its last call.
C26_RetryTerminates ==
    /\ <>(call.pc = "done")
    /\ [][call.pc = "done" => call' = call]_vars
    /\ [](/\ Len(call.replies) <= call.max_retries
          /\ \A i \in DOMAIN call.slept : call.slept[i] = 2 ^ (i - 1)
          /\ Len(call.slept) <= Len(call.replies)
          /\ call.pc = "done" =>
                /\ call.replies # <<>> => Len(call.slept) = Len(call.replies) - 1
                /\ LET n == Len(call.replies)
                   IN  IF n > 0 /\ call.replies[n].ok
                       THEN call.returned = Returning(call.replies[n].text) /\ AllRetriedBut(1)
                       ELSE IF n > 0 /\ call.replies[n].message \in Unretried
                       THEN call.returned = Raising(call.replies[n].message) /\ AllRetriedBut(1)
                       ELSE /\ n = call.max_retries
                            /\ AllRetriedBut(0)
                            /\ call.returned = FailedAfter(call.max_retries, call.last_exception)
                            /\ n > 0 => call.last_exception = call.replies[n].message)

\* three calls failed and the function gave up, having slept 1 s and 2 s
C26_Witness ==
    /\ call.fn = "_make_request_with_retry"
    /\ call.pc = "done"
    /\ call.max_retries = 3
    /\ Len(call.replies) = 3
    /\ call.slept = <<1, 2>>
    /\ call.returned = FailedAfter(3, <<"503 unavailable">>)

\* ---------------------------------------------------------------------------
\* prompts and their versions
\* ---------------------------------------------------------------------------

\* the contents of the request bodies: a string is the tuple of its fragments,
\* the empty string the empty tuple (PromptCreate.content: str,
\* PromptUpdate.content: Optional[str])
Contents == { <<>>, <<"draft">>, <<"edit">> }

\* the ids a PUT /prompts/{prompt_id} names
PromptIds == 1..MaxRows

\* the rows the tables hold before no further request is taken
MaxStored == MaxRows + 1

\* bool(content) of Python: None and the empty string are false
Truthy(content) == content # None /\ content # <<>>

Idling ==
    [op |-> "-", pc |-> "idle", prompt_id |-> 0, content |-> None,
     new_version_number |-> 0, status |-> 0]

Creating(content) ==
    [Idling EXCEPT !.op = "create_prompt", !.pc = "start", !.content = content]

\* a request that has ended, and the status of its response
Ended(status) == [Idling EXCEPT !.pc = "done", !.status = status]

Updating(prompt_id, content) ==
    [Idling EXCEPT !.op = "update_prompt", !.pc = "start", !.prompt_id = prompt_id,
                   !.content = content]

PromptInit ==
    /\ prompts = <<>>
    /\ prompt_versions = <<>>
    /\ inflight = [th \in Threads |-> Idling]
    /\ users = <<>>
    /\ call = NoCall
    /\ AuthAtRest
    /\ LimiterAtRest

\* the server takes a request while a thread of its pool is free
Take(th, request) ==
    /\ inflight[th].pc \in {"idle", "done"}
    /\ Len(prompts) + Len(prompt_versions) < MaxStored
    /\ inflight' = [inflight EXCEPT ![th] = request]
    /\ UNCHANGED <<authvars, limitvars, users, call, promptvars>>

\* create_prompt up to its first commit (lines 31-42)
CreatePrompt(th) ==
    /\ inflight[th].op = "create_prompt"
    /\ inflight[th].pc = "start"
    /\ prompts' = Append(prompts, [id |-> Len(prompts) + 1,
                                   content |-> inflight[th].content])
    /\ inflight' = [inflight EXCEPT ![th].pc = "added",
                                    ![th].prompt_id = Len(prompts) + 1]
    /\ UNCHANGED <<authvars, limitvars, users, call, prompt_versions>>

\* create_prompt from there to its end: the initial version (lines 44-54)
CreateVersion(th) ==
    /\ inflight[th].op = "create_prompt"
    /\ inflight[th].pc = "added"
    /\ prompt_versions' = Append(prompt_versions,
                                 [prompt_id |-> inflight[th].prompt_id,
                                  version_number |-> 1,
                                  content |-> inflight[th].content])
    /\ inflight' = [inflight EXCEPT ![th] = Ended(HTTP_201_CREATED)]
    /\ UNCHANGED <<authvars, limitvars, users, call, prompts>>

\* the version numbers stored for a prompt
VersionNumbers(rows, prompt_id) ==
    { rows[i].version_number : i \in { j \in DOMAIN rows : rows[j].prompt_id = prompt_id } }

Highest(numbers) == CHOOSE n \in numbers : \A m \in numbers : m <= n

\* the number update_prompt gives to a new version (lines 150-157)
new_version_number(rows, prompt_id) ==
    LET numbers == VersionNumbers(rows, prompt_id)
    IN  IF numbers # {} THEN Highest(numbers) + 1 ELSE 1

\* update_prompt up to its query for the prompt (lines 123-132)
UpdateLookup(th) ==
    /\ inflight[th].op = "update_prompt"
    /\ inflight[th].pc = "start"
    /\ inflight' =
          IF inflight[th].prompt_id \in DOMAIN prompts
          THEN [inflight EXCEPT ![th].pc = "found"]
          ELSE [inflight EXCEPT ![th] = Ended(HTTP_404_NOT_FOUND)]
    /\ UNCHANGED <<authvars, limitvars, users, call, promptvars>>

\* update_prompt from there up to its commit: the fields are set on the
\* object of its session, and the latest version is read (lines 137-164)
UpdateNumber(th) ==
    /\ inflight[th].op = "update_prompt"
    /\ inflight[th].pc = "found"
    /\ inflight' =
          IF Truthy(inflight[th].content)
          THEN [inflight EXCEPT ![th].pc = "numbered",
                                ![th].new_version_number =
                                    new_version_number(prompt_versions, inflight[th].prompt_id)]
          ELSE [inflight EXCEPT ![th].pc = "numbered"]
    /\ UNCHANGED <<authvars, limitvars, users, call, promptvars>>

\* the commit of update_prompt (lines 139-140, 159-168)
UpdateCommit(th) ==
    /\ inflight[th].op = "update_prompt"
    /\ inflight[th].pc = "numbered"
    /\ prompts' =
          IF inflight[th].content # None
          THEN [prompts EXCEPT ![inflight[th].prompt_id].content = inflight[th].content]
          ELSE prompts
    /\ prompt_versions' =
          IF Truthy(inflight[th].content)
          THEN Append(prompt_versions,
                      [prompt_id |-> inflight[th].prompt_id,
                       version_number |-> inflight[th].new_version_number,
                       content |-> inflight[th].content])
          ELSE prompt_versions
    /\ inflight' = [inflight EXCEPT ![th] = Ended(HTTP_200_OK)]
    /\ UNCHANGED <<authvars, limitvars, users, call>>

PromptNext ==
    \/ \E th \in Threads : \E content \in Contents \ {<<>>} : Take(th, Creating(content))
    \/ \E th \in Threads : \E prompt_id \in PromptIds :
          \E content \in Contents \cup {None} : Take(th, Updating(prompt_id, content))
    \/ \E th \in Threads : CreatePrompt(th)
    \/ \E th \in Threads : CreateVersion(th)
    \/ \E th \in Threads : UpdateLookup(th)
    \/ \E th \in Threads : UpdateNumber(th)
    \/ \E th \in Threads : UpdateCommit(th)

PromptSpec == PromptInit /\ [][PromptNext]_vars

\* no request is being handled
Settled == \A th \in Threads : inflight[th].pc \in {"idle", "done"}

\* the versions stored for a prompt, as indices of prompt_versions
VersionsOf(prompt_id) ==
    { i \in DOMAIN prompt_versions : prompt_versions[i].prompt_id = prompt_id }

\* C30: once the requests have ended, the versions of every prompt are
\* numbered 1..n, each number once, and the content of the highest one is the
\* content of the prompt.
C30_VersionsNumbered ==
    Settled =>
        \A prompt_id \in DOMAIN prompts :
            LET stored == VersionsOf(prompt_id)
                n == Cardinality(stored)
            IN  /\ VersionNumbers(prompt_versions, prompt_id) = 1..n
                /\ \A i \in stored :
                      prompt_versions[i].version_number = n
                          => prompt_versions[i].content = prompts[prompt_id].content

====
